---- MODULE Spec2Model ----
(***************************************************************************)
(* A model of the fenix-ai multilayer perceptron: Neuron, Layer and        *)
(* Network (addLayer, compile, predict, train, reset, setLearningRate,     *)
(* getTrainingHistory).                                                    *)
(*                                                                         *)
(* Numbers.  A JavaScript number is modelled as an exact fraction          *)
(* <<n, d>> in lowest terms with d > 0; <<1, 0>> is Infinity, <<-1, 0>> is *)
(* -Infinity and <<0, 0>> is NaN.  Arithmetic is exact (no rounding, no    *)
(* signed zero).  A fraction whose numerator or denominator exceeds Cap is *)
(* outside the explored range: an operation on it yields OutOfRange and    *)
(* every action is guarded so that no OutOfRange value is stored.          *)
(*                                                                         *)
(* Optional values (null or a value) are sequences of length 0 or 1.       *)
(***************************************************************************)
EXTENDS Integers, Sequences, FiniteSets, TLC

\* ------------------------------------------------------------------ bounds
\* Largest numerator / denominator on which arithmetic is carried out.
Cap == 10000
\* Most layers a network is given.
MaxLayers == 2
\* Most successful train calls explored.
MaxTrains == 2
\* Largest earlyStoppingPatience explored.
MaxPatience == 2
\* Most epochs a train call asks for.
MaxEpochs == 2
\* Most direct calls in the stand-alone layer specification.
MaxSteps == 3

\* ----------------------------------------------------------------- numbers
Abs(n) == IF n < 0 THEN -n ELSE n
Sign(n) == IF n < 0 THEN -1 ELSE IF n = 0 THEN 0 ELSE 1

RECURSIVE GCD(_, _)
GCD(a, b) == IF b = 0 THEN a ELSE GCD(b, a % b)

NaN == <<0, 0>>
Infinity == <<1, 0>>
NegInfinity == <<-1, 0>>
OutOfRange == <<0, -1>>
Zero == <<0, 1>>
One == <<1, 1>>

\* The fraction n/d in lowest terms (d = 0 gives NaN or a signed infinity).
Norm(n, d) ==
    IF d = 0 THEN <<Sign(n), 0>>
    ELSE LET g == GCD(Abs(n), Abs(d))
         IN  <<Sign(d) * Sign(n) * (Abs(n) \div g), Abs(d) \div g>>

Num(n) == <<n, 1>>
Fits(x) == x[2] >= 0 /\ Abs(x[1]) <= Cap /\ x[2] <= Cap
IsNaN(x) == x = NaN
IsInf(x) == x[2] = 0 /\ x[1] # 0
\* JavaScript isFinite(x) for a number x.
IsFinite(x) == x[2] > 0

RAdd(a, b) ==
    IF ~Fits(a) \/ ~Fits(b) THEN OutOfRange
    ELSE IF IsNaN(a) \/ IsNaN(b) THEN NaN
    ELSE IF IsInf(a) /\ IsInf(b) THEN (IF a = b THEN a ELSE NaN)
    ELSE IF IsInf(a) THEN a
    ELSE IF IsInf(b) THEN b
    ELSE Norm(a[1] * b[2] + b[1] * a[2], a[2] * b[2])

RNeg(a) == IF ~Fits(a) THEN OutOfRange ELSE <<-a[1], a[2]>>
RSub(a, b) == RAdd(a, RNeg(b))

RMul(a, b) ==
    IF ~Fits(a) \/ ~Fits(b) THEN OutOfRange
    ELSE IF IsNaN(a) \/ IsNaN(b) THEN NaN
    ELSE Norm(a[1] * b[1], a[2] * b[2])

RDiv(a, b) ==
    IF ~Fits(a) \/ ~Fits(b) THEN OutOfRange
    ELSE IF IsNaN(a) \/ IsNaN(b) THEN NaN
    ELSE Norm(a[1] * b[2] * Sign(b[1]), a[2] * Abs(b[1]))

\* a < b as JavaScript compares numbers (false when either is NaN).
RLt(a, b) ==
    IF ~Fits(a) \/ ~Fits(b) THEN FALSE
    ELSE IF IsNaN(a) \/ IsNaN(b) THEN FALSE
    ELSE IF a = b THEN FALSE
    ELSE IF IsInf(a) THEN a = NegInfinity
    ELSE IF IsInf(b) THEN b = Infinity
    ELSE a[1] * b[2] < b[1] * a[2]

RLe(a, b) == ~IsNaN(a) /\ ~IsNaN(b) /\ (a = b \/ RLt(a, b))

\* Optional values.
Null == <<>>
Some(v) == <<v>>
IsNull(o) == o = <<>>

AllFitSeq(s) == \A i \in 1..Len(s) : Fits(s[i])

\* An array argument as the caller passes it: arr is Array.isArray(x), v its
\* elements (numbers).  NotArray stands for a string such as "invalid".
Arr(s) == [arr |-> TRUE, v |-> s]
NotArray == [arr |-> FALSE, v |-> <<>>]

\* ------------------------------------------------------------- activations
\* An activation object is named by a string.  "noFunc" is {} and
\* "noDerivative" is { func } alone: the two malformed objects of the tests.
Activations == {"linear", "relu"}

\* An activation object of the caller's own, whose derivative tells the
\* output from the weighted sum:
\* "negating" is { func: x => -x, derivative: y => y }.
CallerActivations == {"negating"}

HasFunc(act) == act \in Activations \cup CallerActivations \cup {"noDerivative"}
HasDerivative(act) == act \in Activations \cup CallerActivations

\* activationFunction.func(x)
ActFunc(act, x) ==
    IF act = "relu"
    THEN (IF ~Fits(x) THEN OutOfRange
          ELSE IF IsNaN(x) THEN NaN
          ELSE IF RLt(Zero, x) THEN x ELSE Zero)
    ELSE IF act = "negating" THEN <<0 - x[1], x[2]>>
    ELSE x

\* activationFunction.derivative(x)
ActDerivative(act, x) ==
    IF act = "relu"
    THEN (IF ~Fits(x) THEN OutOfRange
          ELSE IF RLt(Zero, x) THEN One ELSE Zero)
    ELSE IF act = "negating" THEN x
    ELSE One

\* ------------------------------------------------------------------ Neuron
\* One draw of (Math.random() * 2 - 1) * limit for weight i of neuron j: the
\* generator is ambient, so the draws are a choice (seed) among streams of
\* values within [-limit, limit] (limit = sqrt(6 / (inputSize + 1)) >= 1 for
\* the input sizes explored).  The stream explored draws 1 and -1 in turn.
Seeds == {0}
initializeWeights(inputSize, seed, j) ==
    [i \in 1..inputSize |-> IF (seed + j + i) % 2 = 0 THEN One ELSE Num(-1)]

\* (Math.random() * 2 - 1) * 0.1: the draw explored is 0.
initializeBias == Zero

NeuronNew(inputSize, seed, j) ==
    [weights |-> initializeWeights(inputSize, seed, j),
     bias |-> initializeBias,
     lastInputs |-> Null,
     lastOutput |-> Null]

\* A validateInputs without the check of the elements.
NeuronValidateInputsSizeOnly(n, inputs) ==
    IF ~inputs.arr THEN "ValidationError"
    ELSE IF Len(inputs.v) # Len(n.weights) THEN "ValidationError"
    ELSE "none"

\* Neuron.validateInputs: the error it throws, or "none".
NeuronValidateInputs(n, inputs) ==
    IF ~inputs.arr THEN "ValidationError"
    ELSE IF Len(inputs.v) # Len(n.weights) THEN "ValidationError"
    ELSE IF \E i \in 1..Len(inputs.v) : ~IsFinite(inputs.v[i]) THEN "ValidationError"
    ELSE "none"

RECURSIVE WeightedSumFrom(_, _, _, _)
WeightedSumFrom(weights, xs, i, sum) ==
    IF i > Len(xs) THEN sum
    ELSE WeightedSumFrom(weights, xs, i + 1, RAdd(sum, RMul(xs[i], weights[i])))

calculateWeightedSum(n, xs) == WeightedSumFrom(n.weights, xs, 1, n.bias)

\* A forward that keeps the argument itself as this.lastInputs.
ForwardKeepsArgument(inputs) == [v |-> inputs, own |-> FALSE]

\* this.lastInputs = [...inputs] in Neuron.forward: the contents of the array
\* the neuron keeps; own says that it is a fresh array, not the argument.
ForwardKeeps(inputs) == [v |-> inputs, own |-> TRUE]

\* A forward that also stores its output as the bias.
NeuronForwardIntoBias(n, inputs, act) ==
    LET e == NeuronValidateInputs(n, inputs)
        out == ActFunc(act, calculateWeightedSum(n, inputs.v))
    IN  IF e # "none" THEN [neuron |-> n, out |-> NaN, err |-> e]
        ELSE [neuron |-> [n EXCEPT !.lastInputs = Some(inputs.v),
                                   !.lastOutput = Some(out),
                                   !.bias = out],
              out |-> out, err |-> "none"]

\* Neuron.forward(inputs, activationFunction.func) of a layer with activation act.
NeuronForward(n, inputs, act) ==
    LET e == NeuronValidateInputs(n, inputs)
        out == ActFunc(act, calculateWeightedSum(n, inputs.v))
    IN  IF e # "none" THEN [neuron |-> n, out |-> NaN, err |-> e]
        ELSE [neuron |-> [n EXCEPT !.lastInputs = Some(ForwardKeeps(inputs.v).v),
                                   !.lastOutput = Some(out)],
              out |-> out, err |-> "none"]

\* An updateWeights without the lastInputs check: an absent input is
\* undefined, NaN in arithmetic.
NeuronUpdateWeightsUnchecked(n, delta, learningRate) ==
    [neuron |-> [n EXCEPT
         !.weights = [i \in 1..Len(n.weights) |->
                         RAdd(n.weights[i],
                              RMul(RMul(learningRate, delta),
                                   IF ~IsNull(n.lastInputs) /\ i <= Len(n.lastInputs[1])
                                   THEN n.lastInputs[1][i] ELSE NaN))],
         !.bias = RAdd(n.bias, RMul(learningRate, delta))],
     err |-> "none"]

\* Neuron.updateWeights(delta, learningRate)
NeuronUpdateWeights(n, delta, learningRate) ==
    IF IsNull(n.lastInputs)
    THEN [neuron |-> n, err |-> "StateError"]
    ELSE LET xs == n.lastInputs[1]
             step == RMul(learningRate, delta)
         IN  [neuron |-> [n EXCEPT
                  !.weights = [i \in 1..Len(n.weights) |->
                                  RAdd(n.weights[i],
                                       RMul(step, IF i <= Len(xs) THEN xs[i] ELSE NaN))],
                  !.bias = RAdd(n.bias, step)],
              err |-> "none"]

\* A getWeights that hands out this.weights itself.
GetWeightsReturnsOwnArray(weights) == [v |-> weights, own |-> FALSE]

\* weights: [...this.weights] in Neuron.getWeights: the contents of the array
\* handed out; own says that it is a fresh array, not this.weights.
GetWeightsReturn(weights) == [v |-> weights, own |-> TRUE]

\* Neuron.getWeights()
NeuronGetWeights(n) == [weights |-> GetWeightsReturn(n.weights).v, bias |-> n.bias]

\* this.weights = [...weights] in Neuron.setWeights: the contents of the
\* array the neuron keeps; own says that it is a fresh array, not the
\* argument.
SetWeightsKeeps(weights) == [v |-> weights, own |-> TRUE]

\* Neuron.setWeights(weights, bias)
NeuronSetWeights(n, weights, bias) ==
    IF ~weights.arr \/ Len(weights.v) # Len(n.weights)
    THEN [neuron |-> n, err |-> "ValidationError"]
    ELSE [neuron |-> [n EXCEPT !.weights = SetWeightsKeeps(weights.v).v,
                               !.bias = bias],
          err |-> "none"]

NeuronFits(n) ==
    /\ AllFitSeq(n.weights) /\ Fits(n.bias)
    /\ (~IsNull(n.lastInputs) => AllFitSeq(n.lastInputs[1]))
    /\ (~IsNull(n.lastOutput) => Fits(n.lastOutput[1]))

\* ------------------------------------------------------------------- Layer
\* Number.isInteger(x) for a number x.
IsInteger(x) == x[2] = 1

\* Layer.validateParameters(neuronCount, inputSize, activationFunction);
\* inputSize is an optional number (null when the caller passed none).
LayerValidateParameters(neuronCount, inputSize, act) ==
    IF ~IsInteger(neuronCount) \/ neuronCount[1] <= 0 THEN "ValidationError"
    ELSE IF IsNull(inputSize) \/ ~IsInteger(inputSize[1]) \/ inputSize[1][1] <= 0
         THEN "ValidationError"
    ELSE IF ~HasFunc(act) \/ ~HasDerivative(act) THEN "ValidationError"
    ELSE "none"

\* new Layer(neuronCount, inputSize, activationFunction), once validated.
LayerNew(neuronCount, inputSize, act, seed) ==
    [neurons |-> [j \in 1..neuronCount |-> NeuronNew(inputSize, seed, j)],
     activationFunction |-> act,
     outputs |-> <<>>,
     size |-> neuronCount,
     inputSize |-> inputSize]

\* Layer.validateInputs
LayerValidateInputs(layer, inputs) ==
    IF ~inputs.arr \/ Len(inputs.v) # layer.inputSize THEN "ValidationError" ELSE "none"

\* Index of the first element of errs that is an error, or Len(errs) + 1.
FirstError(errs) ==
    LET bad == {j \in 1..Len(errs) : errs[j] # "none"}
    IN  IF bad = {} THEN Len(errs) + 1
        ELSE CHOOSE j \in bad : \A k \in bad : j <= k

\* A forward that returns this.outputs itself.
ForwardReturnOutputs(outputs) == [v |-> outputs, own |-> FALSE]

\* return [...this.outputs] at the end of Layer.forward: the contents of the
\* array returned; own says that it is a fresh array, not this.outputs.
ForwardReturn(outputs) == [v |-> outputs, own |-> TRUE]

\* Layer.forward(inputs): the neurons are evaluated in order; the one that
\* throws leaves the caches of the neurons before it written and outputs as
\* it was.
LayerForward(layer, inputs) ==
    LET e == LayerValidateInputs(layer, inputs)
        res == [j \in 1..Len(layer.neurons) |->
                   NeuronForward(layer.neurons[j], inputs, layer.activationFunction)]
        k == FirstError([j \in 1..Len(layer.neurons) |-> res[j].err])
        outs == [j \in 1..Len(layer.neurons) |-> res[j].out]
    IN  IF e # "none" THEN [layer |-> layer, out |-> <<>>, err |-> e]
        ELSE IF k <= Len(layer.neurons)
        THEN [layer |-> [layer EXCEPT !.neurons =
                            [j \in 1..Len(layer.neurons) |->
                                IF j < k THEN res[j].neuron ELSE layer.neurons[j]]],
              out |-> <<>>, err |-> res[k].err]
        ELSE [layer |-> [layer EXCEPT !.neurons =
                            [j \in 1..Len(layer.neurons) |-> res[j].neuron],
                         !.outputs = outs],
              out |-> ForwardReturn(outs).v, err |-> "none"]

\* this.outputs[i], an absent element (undefined) being NaN in arithmetic.
OutputAt(layer, i) == IF i <= Len(layer.outputs) THEN layer.outputs[i] ELSE NaN

\* The neurons after a backward loop whose neuron i is given deltas[i]: the
\* updates are applied in index order up to the first one that throws.
ApplyDeltas(layer, deltas, learningRate) ==
    LET res == [i \in 1..Len(layer.neurons) |->
                   NeuronUpdateWeights(layer.neurons[i], deltas[i], learningRate)]
        k == FirstError([i \in 1..Len(layer.neurons) |-> res[i].err])
    IN  [layer |-> [layer EXCEPT !.neurons =
                       [i \in 1..Len(layer.neurons) |->
                           IF i < k THEN res[i].neuron ELSE layer.neurons[i]]],
         deltas |-> IF k <= Len(layer.neurons) THEN <<>> ELSE deltas,
         err |-> IF k <= Len(layer.neurons) THEN res[k].err ELSE "none"]

\* A validateTargets that accepts more targets than neurons.
LayerValidateTargetsAtLeast(layer, targets) ==
    IF ~targets.arr \/ Len(targets.v) < Len(layer.neurons)
    THEN "ValidationError" ELSE "none"

\* Layer.validateTargets
LayerValidateTargets(layer, targets) ==
    IF ~targets.arr \/ Len(targets.v) # Len(layer.neurons)
    THEN "ValidationError" ELSE "none"

\* A backwardOutput that gives derivative the weighted sum of the neuron's
\* last inputs instead of outputs[i].
LayerBackwardOutputOnSums(layer, targets, learningRate) ==
    LET e == LayerValidateTargets(layer, targets)
        sums == [i \in 1..Len(layer.neurons) |->
                    IF IsNull(layer.neurons[i].lastInputs) THEN NaN
                    ELSE calculateWeightedSum(layer.neurons[i],
                                              layer.neurons[i].lastInputs[1])]
        deltas == [i \in 1..Len(layer.neurons) |->
                      RMul(RSub(targets.v[i], OutputAt(layer, i)),
                           ActDerivative(layer.activationFunction, sums[i]))]
    IN  IF e # "none" THEN [layer |-> layer, deltas |-> <<>>, err |-> e]
        ELSE ApplyDeltas(layer, deltas, learningRate)

\* Layer.backwardOutput(targets, learningRate)
LayerBackwardOutput(layer, targets, learningRate) ==
    LET e == LayerValidateTargets(layer, targets)
        deltas == [i \in 1..Len(layer.neurons) |->
                      RMul(RSub(targets.v[i], OutputAt(layer, i)),
                           ActDerivative(layer.activationFunction, OutputAt(layer, i)))]
    IN  IF e # "none" THEN [layer |-> layer, deltas |-> <<>>, err |-> e]
        ELSE ApplyDeltas(layer, deltas, learningRate)

\* Layer.validateBackpropagationInputs
LayerValidateBackpropagationInputs(deltas, weights) ==
    IF ~deltas.arr \/ ~weights.arr THEN "ValidationError"
    ELSE IF Len(deltas.v) # Len(weights.v) THEN "ValidationError"
    ELSE "none"

\* Layer.calculateNeuronError(neuronIndex, nextLayerDeltas, nextLayerWeights)
RECURSIVE NeuronErrorFrom(_, _, _, _, _)
NeuronErrorFrom(i, nextDeltas, nextWeights, j, error) ==
    IF j > Len(nextDeltas) THEN error
    ELSE NeuronErrorFrom(i, nextDeltas, nextWeights, j + 1,
             RAdd(error, RMul(nextDeltas[j],
                              IF i <= Len(nextWeights[j]) THEN nextWeights[j][i] ELSE NaN)))

calculateNeuronError(i, nextDeltas, nextWeights) ==
    NeuronErrorFrom(i, nextDeltas, nextWeights, 1, Zero)

\* Layer.backwardHidden(nextLayerDeltas, nextLayerWeights, learningRate)
LayerBackwardHidden(layer, nextDeltas, nextWeights, learningRate) ==
    LET e == LayerValidateBackpropagationInputs(nextDeltas, nextWeights)
        deltas == [i \in 1..Len(layer.neurons) |->
                      RMul(calculateNeuronError(i, nextDeltas.v, nextWeights.v),
                           ActDerivative(layer.activationFunction, OutputAt(layer, i)))]
    IN  IF e # "none" THEN [layer |-> layer, deltas |-> <<>>, err |-> e]
        ELSE ApplyDeltas(layer, deltas, learningRate)

\* A getConnectionWeights that copies each neuron's weights.
ConnectionWeightsCopied(weights) == [v |-> weights, own |-> TRUE]

\* neuron => neuron.weights in Layer.getConnectionWeights: the contents of
\* the entry returned for a neuron; own = FALSE says that it is the neuron's
\* this.weights itself.
ConnectionWeightsEntry(weights) == [v |-> weights, own |-> FALSE]

\* Layer.getConnectionWeights()
LayerGetConnectionWeights(layer) ==
    [j \in 1..Len(layer.neurons) |->
        ConnectionWeightsEntry(layer.neurons[j].weights).v]

\* An entry { weights, bias } of the argument of Layer.setWeights.
WeightsEntry(weights, bias) == [weights |-> weights, bias |-> bias]

\* Layer.setWeights(weightsData): forEach calls setWeights on the neurons in
\* order; the one that throws ends it, the neurons before it being set.
LayerSetWeights(layer, weightsData) ==
    IF ~weightsData.arr \/ Len(weightsData.v) # Len(layer.neurons)
    THEN [layer |-> layer, err |-> "ValidationError"]
    ELSE LET res == [j \in 1..Len(layer.neurons) |->
                        NeuronSetWeights(layer.neurons[j], weightsData.v[j].weights,
                                         weightsData.v[j].bias)]
             k == FirstError([j \in 1..Len(layer.neurons) |-> res[j].err])
         IN  [layer |-> [layer EXCEPT !.neurons =
                            [j \in 1..Len(layer.neurons) |->
                                IF j < k THEN res[j].neuron ELSE layer.neurons[j]]],
              err |-> IF k <= Len(layer.neurons) THEN res[k].err ELSE "none"]

\* A Layer.reset that clears the outputs but not the neurons.
LayerResetOutputsOnly(layer) == [layer EXCEPT !.outputs = <<>>]

\* Layer.reset()
LayerReset(layer) ==
    [layer EXCEPT !.outputs = <<>>,
                  !.neurons = [j \in 1..Len(layer.neurons) |->
                                  [layer.neurons[j] EXCEPT !.lastInputs = Null,
                                                           !.lastOutput = Null]]]

\* The weights and bias of every neuron of a layer.
LayerParameters(layer) ==
    [j \in 1..Len(layer.neurons) |->
        [weights |-> layer.neurons[j].weights, bias |-> layer.neurons[j].bias]]

LayerFits(layer) ==
    /\ \A j \in 1..Len(layer.neurons) : NeuronFits(layer.neurons[j])
    /\ AllFitSeq(layer.outputs)

LayersFit(ls) == \A i \in 1..Len(ls) : LayerFits(ls[i])

\* ----------------------------------------------------------------- Network
\* Network.validateLayerParameters on a network holding nLayers layers.
NetworkValidateLayerParameters(nLayers, neuronCount, act, inputSize) ==
    IF ~IsInteger(neuronCount) \/ neuronCount[1] <= 0 THEN "ValidationError"
    ELSE IF ~HasFunc(act) THEN "ValidationError"
    ELSE IF nLayers = 0 /\ (IsNull(inputSize) \/ RLe(inputSize[1], Zero))
         THEN "ValidationError"
    ELSE "none"

\* A determineLayerInputSize that takes the caller's inputSize when given.
determineLayerInputSizeAsPassed(ls, inputSize) ==
    IF Len(ls) = 0 \/ ~IsNull(inputSize) THEN inputSize
    ELSE Some(Num(ls[Len(ls)].size))

\* Network.determineLayerInputSize(inputSize): an optional number.
determineLayerInputSize(ls, inputSize) ==
    IF Len(ls) = 0 THEN inputSize ELSE Some(Num(ls[Len(ls)].size))

\* A validatePredictionInputs that accepts everything.
NetworkValidatePredictionInputsNone(ls, inputs) == "none"

\* Network.validatePredictionInputs
NetworkValidatePredictionInputs(ls, inputs) ==
    IF ~inputs.arr THEN "ValidationError"
    ELSE IF Len(ls) = 0 THEN "ValidationError"
    ELSE IF Len(inputs.v) # ls[1].inputSize THEN "ValidationError"
    ELSE "none"

\* The loop of Network.predict from layer i on, currentInputs being cur.
RECURSIVE PredictFrom(_, _, _)
PredictFrom(ls, i, cur) ==
    IF i > Len(ls) THEN [layers |-> ls, out |-> cur, err |-> "none"]
    ELSE LET r == LayerForward(ls[i], Arr(cur))
         IN  IF r.err # "none"
             THEN [layers |-> [ls EXCEPT ![i] = r.layer], out |-> <<>>, err |-> r.err]
             ELSE PredictFrom([ls EXCEPT ![i] = r.layer], i + 1, r.out)

\* Network.predict(inputs): the layers after the call, the vector returned
\* and the error thrown.
NetworkPredict(ls, inputs) ==
    LET e == NetworkValidatePredictionInputs(ls, inputs)
    IN  IF e # "none" THEN [layers |-> ls, out |-> <<>>, err |-> e]
        ELSE PredictFrom(ls, 1, inputs.v)

\* Network.calculateError(predicted, actual): mean squared error.
RECURSIVE SumSquaredErrorFrom(_, _, _, _)
SumSquaredErrorFrom(predicted, actual, i, sum) ==
    IF i > Len(predicted) THEN sum
    ELSE LET diff == RSub(predicted[i], actual[i])
         IN  SumSquaredErrorFrom(predicted, actual, i + 1, RAdd(sum, RMul(diff, diff)))

calculateError(predicted, actual) ==
    IF Len(predicted) # Len(actual)
    THEN [value |-> NaN, err |-> "ValidationError"]
    ELSE [value |-> RDiv(SumSquaredErrorFrom(predicted, actual, 1, Zero),
                         Num(Len(predicted))),
          err |-> "none"]

\* The loop of Network.backpropagate over the hidden layers, from layer i
\* down, deltas being those of layer i + 1.
RECURSIVE BackpropagateFrom(_, _, _, _)
BackpropagateFrom(ls, i, deltas, learningRate) ==
    IF i < 1 THEN [layers |-> ls, err |-> "none"]
    ELSE LET nextLayerWeights == LayerGetConnectionWeights(ls[i + 1])
             r == LayerBackwardHidden(ls[i], Arr(deltas), Arr(nextLayerWeights),
                                      learningRate)
         IN  IF r.err # "none"
             THEN [layers |-> [ls EXCEPT ![i] = r.layer], err |-> r.err]
             ELSE BackpropagateFrom([ls EXCEPT ![i] = r.layer], i - 1, r.deltas,
                                    learningRate)

\* Network.backpropagate(targets)
NetworkBackpropagate(ls, targets, learningRate) ==
    LET n == Len(ls)
        r == LayerBackwardOutput(ls[n], Arr(targets), learningRate)
    IN  IF r.err # "none"
        THEN [layers |-> [ls EXCEPT ![n] = r.layer], err |-> r.err]
        ELSE BackpropagateFrom([ls EXCEPT ![n] = r.layer], n - 1, r.deltas,
                               learningRate)

\* One training example inside Network.trainEpoch: predict, calculateError,
\* backpropagate.  The layers after it, the error added to totalError and
\* the error thrown.
TrainOnExample(ls, example, learningRate) ==
    LET p == NetworkPredict(ls, Arr(example.input[1]))
        c == calculateError(p.out, example.target[1])
        b == NetworkBackpropagate(p.layers, example.target[1], learningRate)
    IN  IF p.err # "none" THEN [layers |-> p.layers, error |-> NaN, err |-> p.err]
        ELSE IF c.err # "none" THEN [layers |-> p.layers, error |-> NaN, err |-> c.err]
        ELSE [layers |-> b.layers, error |-> c.value, err |-> b.err]

\* Network.evaluateValidation(validationData) from example i on.
RECURSIVE EvaluateValidationFrom(_, _, _, _)
EvaluateValidationFrom(ls, vdata, i, totalError) ==
    IF i > Len(vdata)
    THEN [layers |-> ls, value |-> RDiv(totalError, Num(Len(vdata))), err |-> "none"]
    ELSE LET p == NetworkPredict(ls, Arr(vdata[i].input[1]))
             c == calculateError(p.out, vdata[i].target[1])
         IN  IF p.err # "none" THEN [layers |-> p.layers, value |-> NaN, err |-> p.err]
             ELSE IF c.err # "none"
             THEN [layers |-> p.layers, value |-> NaN, err |-> c.err]
             ELSE EvaluateValidationFrom(p.layers, vdata, i + 1,
                                         RAdd(totalError, c.value))

evaluateValidation(ls, vdata) == EvaluateValidationFrom(ls, vdata, 1, Zero)

\* A training example { input, target }; an absent field is Null.
Example(input, target) == [input |-> Some(input), target |-> Some(target)]

\* Network.validateTrainingData: the error thrown for example i on, inputSize
\* and outputSize being the lengths of the first example's fields.  Reading
\* .length of an absent field is a TypeError.
RECURSIVE ValidateExamplesFrom(_, _, _, _)
ValidateExamplesFrom(examples, i, inputSize, outputSize) ==
    IF i > Len(examples) THEN "none"
    ELSE IF IsNull(examples[i].input) THEN "TypeError"
    ELSE IF Len(examples[i].input[1]) # inputSize THEN "ValidationError"
    ELSE IF IsNull(examples[i].target) THEN "TypeError"
    ELSE IF Len(examples[i].target[1]) # outputSize THEN "ValidationError"
    ELSE ValidateExamplesFrom(examples, i + 1, inputSize, outputSize)

validateTrainingData(trainingData) ==
    IF ~trainingData.arr \/ Len(trainingData.v) = 0 THEN "ValidationError"
    ELSE IF IsNull(trainingData.v[1].input) \/ IsNull(trainingData.v[1].target)
         THEN "ValidationError"
    ELSE ValidateExamplesFrom(trainingData.v, 1,
                              Len(trainingData.v[1].input[1]),
                              Len(trainingData.v[1].target[1]))

\* Network.shuffleArray(array): Fisher-Yates, i running from the last index
\* (0-based) down to 1 and js[i] being floor(Math.random() * (i + 1)).
\* A swap that only overwrites element a.
SwapOverwrites(s, a, b) == [s EXCEPT ![a] = s[b]]

\* [shuffled[i], shuffled[j]] = [shuffled[j], shuffled[i]]
Swap(s, a, b) == [s EXCEPT ![a] = s[b], ![b] = s[a]]

RECURSIVE ShuffleFrom(_, _, _)
ShuffleFrom(array, i, js) ==
    IF i <= 0 THEN array
    ELSE ShuffleFrom(Swap(array, i + 1, js[i] + 1), i - 1, js)

shuffleArray(array, js) == ShuffleFrom(array, Len(array) - 1, js)

\* The draws a shuffle of n elements can make.
ShuffleDraws(n) == {js \in [1..(n - 1) -> 0..(n - 1)] : \A i \in 1..(n - 1) : js[i] <= i}

\* ------------------------------------------------------------------- state
VARIABLES
    layers,           \* Network.layers
    learningRate,     \* Network.learningRate
    trainingHistory,  \* Network.trainingHistory: the address of its array (always 1)
    isCompiled,       \* Network.isCompiled
    heap,             \* the arrays trainingHistory and its copies live in
    held,             \* the array the caller got from getTrainingHistory (optional)
    pc,               \* "idle", or where the running train call is
    tr,               \* arguments and locals of the current / last train call
    budget,           \* how many more successful calls of each method are explored
    lastOp,           \* the last call made on the network
    lastErr,          \* the error it threw, or "none"
    lastRet,          \* the vector predict returned
    lastArgs,         \* the arguments of the last addLayer / setLearningRate / predict
    pre,              \* the network as it was when the last call was made
    heldSeen,         \* what the held array contained when the caller last looked
    firstInputSize,   \* the inputSize passed to the first successful addLayer
    forwarded,        \* LayerSpec: the neurons whose forward has returned since
                      \* construction or the last Layer.reset
    caller            \* the arrays the calling script holds (PredictSpec, LayerSpec)

vars == <<layers, learningRate, trainingHistory, isCompiled, heap, held, pc, tr,
          budget, lastOp, lastErr, lastRet, lastArgs, pre, heldSeen, firstInputSize,
          forwarded, caller>>

\* Arrays are identified up to renaming: address 1 is always the array
\* this.trainingHistory refers to, address 2 the array the caller holds when
\* that is another one.  An array no reference points to is collected.
Addr == {1, 2}

\* The contents of Network.trainingHistory.
History == heap[trainingHistory]

\* this.trainingHistory = []: a fresh empty array.  The array it replaces
\* lives on only if the caller holds it.
NewHistory(h, hd) ==
    IF hd = Some(1)
    THEN [heap |-> [a \in Addr |-> IF a = 1 THEN <<>> ELSE h[1]], held |-> Some(2)]
    ELSE [heap |-> [h EXCEPT ![1] = <<>>], held |-> hd]

\* A getTrainingHistory that returns this.trainingHistory itself.
getTrainingHistoryAliased(h) == [heap |-> h, ret |-> 1]

\* Network.getTrainingHistory(): [...this.trainingHistory], a fresh array
\* holding the same elements; ret is its address.
getTrainingHistory(h) ==
    [heap |-> [h EXCEPT ![2] = h[1]], ret |-> 2]

\* The behaviours explored.  Calls that fail are explored without limit; the
\* successful calls of one behaviour are limited by one of three budgets:
\* building and using a stack of layers, training repeatedly while the
\* caller holds a copy of the history, and changing the learning rate.
Budgets ==
    {[addLayer |-> MaxLayers, compile |-> 1, predict |-> 1, train |-> 1,
      reset |-> 1, setLearningRate |-> 0, getTrainingHistory |-> 0,
      callerMutates |-> 0],
     [addLayer |-> 1, compile |-> 0, predict |-> 0, train |-> MaxTrains,
      reset |-> 1, setLearningRate |-> 0, getTrainingHistory |-> 1,
      callerMutates |-> 1],
     [addLayer |-> 1, compile |-> 0, predict |-> 0, train |-> 1,
      reset |-> 0, setLearningRate |-> 1, getTrainingHistory |-> 0,
      callerMutates |-> 0]}

\* One successful call of op is taken from the budget.
Spend(op) ==
    /\ budget[op] > 0
    /\ budget' = [budget EXCEPT ![op] = @ - 1]

Snapshot == [layers |-> layers, history |-> History, isCompiled |-> isCompiled,
             learningRate |-> learningRate]

NoArgs == <<>>

\* The frame of a train call that has not started.
NoTrain ==
    [trainingData |-> NotArray, epochs |-> 0, validationData |-> Null,
     earlyStoppingPatience |-> Null, epoch |-> 0,
     bestValidationError |-> Infinity, patienceCounter |-> 0,
     shuffledData |-> <<>>, idx |-> 0, totalError |-> Zero,
     completed |-> 0, validationErrors |-> <<>>, stopped |-> FALSE]

\* The calling script holds no array.
NoCaller == <<>>

Init ==
    /\ layers = <<>>
    /\ learningRate = <<1, 10>>
    /\ trainingHistory = 1
    /\ isCompiled = FALSE
    /\ heap = [a \in Addr |-> <<>>]
    /\ held = Null
    /\ pc = "idle"
    /\ tr = NoTrain
    /\ budget \in Budgets
    /\ lastOp = "none"
    /\ lastErr = "none"
    /\ lastRet = <<>>
    /\ lastArgs = NoArgs
    /\ pre = [layers |-> <<>>, history |-> <<>>, isCompiled |-> FALSE,
              learningRate |-> Zero]
    /\ heldSeen = <<>>
    /\ firstInputSize = Null
    /\ forwarded = {}
    /\ caller = NoCaller

\* What every call records on entry.
Called(op, args) ==
    /\ lastOp' = op
    /\ lastArgs' = args
    /\ pre' = Snapshot

NoSnapshot == [layers |-> <<>>, history |-> <<>>, isCompiled |-> FALSE,
               learningRate |-> Zero]

\* The caller has seen the outcome of the last call and goes on: what was
\* recorded about that call is dropped.
Continue ==
    /\ pc = "returned"
    /\ pc' = "idle"
    /\ lastOp' = "none"
    /\ lastErr' = "none"
    /\ lastRet' = <<>>
    /\ lastArgs' = NoArgs
    /\ pre' = NoSnapshot
    /\ tr' = NoTrain
    /\ UNCHANGED <<layers, learningRate, trainingHistory, isCompiled, heap, held,
                   budget, heldSeen, firstInputSize, forwarded, caller>>

\* --------------------------------------------------------------- arguments
\* addLayer arguments: the well-formed ones, and each of them spoilt in one
\* place (a neuron count or input size that is zero or not an integer, an
\* activation object without func or without derivative).
LayerArgs ==
    [neuronCount : {Num(1), Num(2)}, act : Activations,
     inputSize : {Null, Some(Num(1)), Some(Num(2))}]
    \cup [neuronCount : {Num(0), <<3, 2>>}, act : {"linear"},
          inputSize : {Some(Num(1))}]
    \cup [neuronCount : {Num(1)}, act : {"noFunc", "noDerivative"},
          inputSize : {Some(Num(1))}]
    \cup [neuronCount : {Num(1)}, act : {"linear"},
          inputSize : {Some(Num(0)), Some(<<3, 2>>)}]

\* Network.addLayer(neuronCount, activationFunction, inputSize)
AddLayer(neuronCount, act, inputSize, seed) ==
    LET e1 == NetworkValidateLayerParameters(Len(layers), neuronCount, act, inputSize)
        layerInputSize == determineLayerInputSize(layers, inputSize)
        e2 == LayerValidateParameters(neuronCount, layerInputSize, act)
        e == IF e1 # "none" THEN e1 ELSE e2
    IN  /\ pc = "idle"
        /\ pc' = "returned"
        /\ Called("addLayer", [neuronCount |-> neuronCount, act |-> act,
                               inputSize |-> inputSize])
        /\ lastErr' = e
        /\ lastRet' = <<>>
        /\ IF e # "none"
           THEN UNCHANGED <<layers, isCompiled, firstInputSize, budget>>
           ELSE /\ Spend("addLayer")
                /\ layers' = Append(layers, LayerNew(neuronCount[1],
                                        layerInputSize[1][1], act, seed))
                /\ isCompiled' = FALSE
                /\ firstInputSize' = IF Len(layers) = 0 THEN inputSize
                                     ELSE firstInputSize
        /\ UNCHANGED <<learningRate, trainingHistory, heap, held, tr, heldSeen,
                       forwarded, caller>>

\* A compile without the test for an empty layer list.
CompileAnyNetwork ==
    /\ pc = "idle"
    /\ pc' = "returned"
    /\ Called("compile", NoArgs)
    /\ lastErr' = "none"
    /\ lastRet' = <<>>
    /\ isCompiled' = TRUE
    /\ Spend("compile")
    /\ UNCHANGED <<layers, learningRate, trainingHistory, heap, held, tr,
                   heldSeen, firstInputSize, forwarded, caller>>

\* Network.compile()
Compile ==
    /\ pc = "idle"
    /\ pc' = "returned"
    /\ Called("compile", NoArgs)
    /\ lastErr' = IF Len(layers) = 0 THEN "ValidationError" ELSE "none"
    /\ lastRet' = <<>>
    /\ IF Len(layers) = 0
       THEN UNCHANGED <<isCompiled, budget>>
       ELSE isCompiled' = TRUE /\ Spend("compile")
    /\ UNCHANGED <<layers, learningRate, trainingHistory, heap, held, tr,
                   heldSeen, firstInputSize, forwarded, caller>>

PredictArgs == {NotArray, Arr(<<>>), Arr(<<One>>), Arr(<<Zero, One>>),
                Arr(<<Infinity>>)}

\* Network.predict(inputs)
Predict(inputs) ==
    /\ pc = "idle"
    /\ \E r \in {NetworkPredict(layers, inputs)} :
        /\ pc' = "returned"
        /\ Called("predict", [inputs |-> inputs])
        /\ LayersFit(r.layers)
        /\ layers' = r.layers
        /\ lastErr' = r.err
        /\ lastRet' = r.out
        /\ IF r.err = "none" THEN Spend("predict") ELSE budget' = budget
        /\ UNCHANGED <<learningRate, trainingHistory, isCompiled, heap, held, tr,
                       heldSeen, firstInputSize, forwarded, caller>>

\* A rate argument: num is (typeof rate === 'number').
RateArgs == {[num |-> TRUE, v |-> One],
             [num |-> TRUE, v |-> Zero], [num |-> TRUE, v |-> Num(-1)],
             [num |-> TRUE, v |-> NaN], [num |-> TRUE, v |-> Infinity],
             [num |-> FALSE, v |-> NaN]}

\* The check of Network.setLearningRate: typeof rate !== 'number' || rate <= 0
\* (a string such as "invalid" converts to NaN, as v of a non-number says).
RateRejected(rate) == ~rate.num \/ RLe(rate.v, Zero)

\* Network.setLearningRate(rate)
SetLearningRate(rate) ==
    /\ pc = "idle"
    /\ pc' = "returned"
    /\ Called("setLearningRate", [rate |-> rate])
    /\ lastErr' = IF RateRejected(rate) THEN "ValidationError" ELSE "none"
    /\ lastRet' = <<>>
    /\ IF RateRejected(rate)
       THEN UNCHANGED <<learningRate, budget>>
       ELSE learningRate' = rate.v /\ Spend("setLearningRate")
    /\ UNCHANGED <<layers, trainingHistory, isCompiled, heap, held, tr,
                   heldSeen, firstInputSize, forwarded, caller>>

\* Network.reset()
Reset ==
    LET n == NewHistory(heap, held)
    IN  /\ pc = "idle"
        /\ pc' = "returned"
        /\ Called("reset", NoArgs)
        /\ lastErr' = "none"
        /\ lastRet' = <<>>
        /\ layers' = [i \in 1..Len(layers) |-> LayerReset(layers[i])]
        /\ heap' = n.heap
        /\ held' = n.held
        /\ Spend("reset")
        /\ UNCHANGED <<learningRate, trainingHistory, isCompiled, tr, heldSeen,
                       firstInputSize, forwarded, caller>>

\* const history = network.getTrainingHistory()
GetTrainingHistory ==
    LET g == getTrainingHistory(heap)
    IN  /\ pc = "idle"
        /\ pc' = "returned"
        /\ Called("getTrainingHistory", NoArgs)
        /\ lastErr' = "none"
        /\ lastRet' = <<>>
        /\ heap' = g.heap
        /\ held' = Some(g.ret)
        /\ heldSeen' = g.heap[g.ret]
        /\ Spend("getTrainingHistory")
        /\ UNCHANGED <<layers, learningRate, trainingHistory, isCompiled, tr,
                       firstInputSize, forwarded, caller>>

\* The caller writes into the array it holds: history[0] = 999.
CallerMutates ==
    /\ pc = "idle"
    /\ pc' = "returned"
    /\ ~IsNull(held)
    /\ Called("callerMutates", NoArgs)
    /\ lastErr' = "none"
    /\ lastRet' = <<>>
    /\ heap' = [heap EXCEPT ![held[1]] =
                   IF Len(@) = 0 THEN <<Num(999)>> ELSE [@ EXCEPT ![1] = Num(999)]]
    /\ heldSeen' = heap'[held[1]]
    /\ Spend("callerMutates")
    /\ UNCHANGED <<layers, learningRate, trainingHistory, isCompiled, held, tr,
                   firstInputSize, forwarded, caller>>

\* ------------------------------------------------------------------- train
MissingTarget(input) == [input |-> Some(input), target |-> Null]
MissingInput(target) == [input |-> Null, target |-> Some(target)]

TrainingDataArgs ==
    {NotArray,
     Arr(<<>>),
     Arr(<<MissingTarget(<<One>>)>>),
     Arr(<<MissingInput(<<One>>)>>),
     Arr(<<Example(<<One>>, <<One>>), MissingTarget(<<One>>)>>),
     Arr(<<Example(<<One>>, <<One>>), MissingInput(<<One>>)>>),
     Arr(<<Example(<<One>>, <<One>>), Example(<<One, Zero>>, <<One>>)>>),
     Arr(<<Example(<<One>>, <<One>>), Example(<<One>>, <<One, Zero>>)>>),
     Arr(<<Example(<<One>>, <<Zero>>), Example(<<NaN>>, <<Zero>>)>>),
     Arr(<<Example(<<One>>, <<One>>), Example(<<Zero>>, <<Zero>>)>>)}

EpochArgs == 0..MaxEpochs

\* validationData arguments: none, an empty array, one example of input
\* size 1 and one of input size 2.
NoValidation == Null
EmptyValidation == Some(Arr(<<>>))
Validation1 == Some(Arr(<<Example(<<One>>, <<Zero>>)>>))
Validation2 == Some(Arr(<<Example(<<One, One>>, <<Zero>>)>>))

\* The options explored: { validationData, earlyStoppingPatience }.
Options(v, p) == [validationData |-> v, earlyStoppingPatience |-> p]
OptionArgs ==
    {Options(NoValidation, Null), Options(Validation1, Null),
     Options(NoValidation, Some(1)), Options(Validation1, Some(0)),
     Options(EmptyValidation, Some(1)), Options(Validation2, Some(1))}
    \cup {Options(Validation1, Some(p)) : p \in 1..MaxPatience}

\* JavaScript truthiness of the two options.
ValidationDataGiven(v) == ~IsNull(v)
\* A test that takes a patience of 0 as supplied.
PatienceGivenEvenZero(p) == ~IsNull(p)

PatienceGiven(p) == ~IsNull(p) /\ p[1] # 0

\* A counter that an improving epoch does not reset.
patienceCounterNeverReset(improved, patienceCounter) == patienceCounter + 1

\* patienceCounter after the test validationError < bestValidationError:
\* patienceCounter = 0 in its then branch, patienceCounter++ in the other.
patienceCounterAfter(improved, patienceCounter) ==
    IF improved THEN 0 ELSE patienceCounter + 1

\* A train that stops one epoch late.
PatienceExhaustedLate(patienceCounter, earlyStoppingPatience) ==
    patienceCounter > earlyStoppingPatience

\* The test of the early stop in Network.train:
\* patienceCounter >= earlyStoppingPatience.
PatienceExhausted(patienceCounter, earlyStoppingPatience) ==
    patienceCounter >= earlyStoppingPatience

\* A prepareForTraining that checks the input size only.
prepareForTrainingInputOnly(ls, compiled, trainingData) ==
    LET inputSize == Len(trainingData.v[1].input[1])
    IN  IF ~compiled /\ Len(ls) = 0
        THEN [err |-> "ValidationError", isCompiled |-> compiled, cleared |-> FALSE]
        ELSE IF Len(ls) = 0
        THEN [err |-> "TypeError", isCompiled |-> TRUE, cleared |-> TRUE]
        ELSE IF ls[1].inputSize # inputSize
        THEN [err |-> "ValidationError", isCompiled |-> TRUE, cleared |-> TRUE]
        ELSE [err |-> "none", isCompiled |-> TRUE, cleared |-> TRUE]

\* A prepareForTraining that does not compile.
prepareForTrainingWithoutCompile(ls, compiled, trainingData) ==
    LET inputSize == Len(trainingData.v[1].input[1])
        outputSize == Len(trainingData.v[1].target[1])
    IN  IF Len(ls) = 0
        THEN [err |-> "ValidationError", isCompiled |-> compiled, cleared |-> FALSE]
        ELSE IF ls[1].inputSize # inputSize \/ ls[Len(ls)].size # outputSize
        THEN [err |-> "ValidationError", isCompiled |-> compiled, cleared |-> TRUE]
        ELSE [err |-> "none", isCompiled |-> compiled, cleared |-> TRUE]

\* A prepareForTraining that keeps the history of earlier calls.
prepareForTrainingKeepingHistory(ls, compiled, trainingData) ==
    LET inputSize == Len(trainingData.v[1].input[1])
        outputSize == Len(trainingData.v[1].target[1])
    IN  IF ~compiled /\ Len(ls) = 0
        THEN [err |-> "ValidationError", isCompiled |-> compiled, cleared |-> FALSE]
        ELSE IF ls[1].inputSize # inputSize \/ ls[Len(ls)].size # outputSize
        THEN [err |-> "ValidationError", isCompiled |-> TRUE, cleared |-> FALSE]
        ELSE [err |-> "none", isCompiled |-> TRUE, cleared |-> FALSE]

\* Network.prepareForTraining(trainingData): the error it throws, isCompiled
\* after it and whether trainingHistory was replaced by a new empty array.
prepareForTraining(ls, compiled, trainingData) ==
    LET inputSize == Len(trainingData.v[1].input[1])
        outputSize == Len(trainingData.v[1].target[1])
    IN  IF ~compiled /\ Len(ls) = 0
        THEN [err |-> "ValidationError", isCompiled |-> compiled, cleared |-> FALSE]
        ELSE IF Len(ls) = 0
        THEN [err |-> "TypeError", isCompiled |-> TRUE, cleared |-> TRUE]
        ELSE IF ls[1].inputSize # inputSize
        THEN [err |-> "ValidationError", isCompiled |-> TRUE, cleared |-> TRUE]
        ELSE IF ls[Len(ls)].size # outputSize
        THEN [err |-> "ValidationError", isCompiled |-> TRUE, cleared |-> TRUE]
        ELSE [err |-> "none", isCompiled |-> TRUE, cleared |-> TRUE]

\* Network.train(trainingData, epochs, { validationData, earlyStoppingPatience })
\* up to the epoch loop: validateTrainingData and prepareForTraining.
TrainCall(trainingData, epochs, validationData, earlyStoppingPatience) ==
    LET e1 == validateTrainingData(trainingData)
        p == prepareForTraining(layers, isCompiled, trainingData)
        e == IF e1 # "none" THEN e1 ELSE p.err
        n == NewHistory(heap, held)
    IN  /\ pc = "idle"
        /\ Called("train", NoArgs)
        /\ lastErr' = e
        /\ lastRet' = <<>>
        /\ IF e1 # "none"
           THEN UNCHANGED <<isCompiled, heap, held>>
           ELSE /\ isCompiled' = p.isCompiled
                /\ IF p.cleared
                   THEN heap' = n.heap /\ held' = n.held
                   ELSE UNCHANGED <<heap, held>>
        /\ IF e # "none"
           THEN /\ pc' = "returned"
                /\ budget' = budget
                /\ tr' = [NoTrain EXCEPT !.trainingData = trainingData]
           ELSE /\ Spend("train")
                /\ pc' = "loop"
                /\ tr' = [NoTrain EXCEPT !.trainingData = trainingData,
                                         !.epochs = epochs,
                                         !.validationData = validationData,
                                         !.earlyStoppingPatience = earlyStoppingPatience]
        /\ UNCHANGED <<layers, learningRate, trainingHistory, heldSeen,
                       firstInputSize, forwarded, caller>>

\* A trainEpoch that shuffles the array it was given.
TrainEpochShufflesArgument(trainingData) == [v |-> trainingData, own |-> FALSE]

\* [...trainingData] in trainEpoch: the contents of the array handed to
\* shuffleArray; own says that it is a fresh array, not the caller's.
TrainEpochCopies(trainingData) == [v |-> trainingData, own |-> TRUE]

\* The script calls train. A call that validateTrainingData or
\* prepareForTraining rejects never reads epochs or options, and what it
\* leaves behind does not depend on them: it is explored with one choice of
\* them.
TrainCallAny ==
    \E trainingData \in TrainingDataArgs :
    \E rejected \in {IF validateTrainingData(trainingData) # "none" THEN TRUE
                     ELSE prepareForTraining(layers, isCompiled,
                                             trainingData).err # "none"} :
    \E epochs \in (IF rejected THEN {0} ELSE EpochArgs),
       options \in (IF rejected THEN {Options(NoValidation, Null)}
                    ELSE OptionArgs) :
        TrainCall(trainingData, epochs, options.validationData,
                  options.earlyStoppingPatience)

\* The head of the epoch loop when epoch < epochs: trainEpoch begins with a
\* shuffled copy of the training data. shuffleArray swaps in place, so an
\* array that is the caller's own has the shuffled order afterwards.
EpochStart(js) ==
    /\ pc = "loop"
    /\ tr.epoch < tr.epochs
    /\ pc' = "epoch"
    /\ \E c \in {TrainEpochCopies(tr.trainingData.v)} :
       \E shuffled \in {shuffleArray(c.v, js)} :
          tr' = [tr EXCEPT !.shuffledData = shuffled,
                           !.trainingData = IF c.own THEN @ ELSE Arr(shuffled),
                           !.idx = 1,
                           !.totalError = Zero]
    /\ UNCHANGED <<layers, learningRate, trainingHistory, isCompiled, heap, held,
                   budget, lastOp, lastErr, lastRet, lastArgs, pre, heldSeen,
                   firstInputSize, forwarded, caller>>

\* The head of the epoch loop when epoch >= epochs: return this.
TrainReturn ==
    /\ pc = "loop"
    /\ ~(tr.epoch < tr.epochs)
    /\ pc' = "returned"
    /\ lastRet' = <<"this">>
    /\ UNCHANGED <<layers, learningRate, trainingHistory, isCompiled, heap, held,
                   budget, tr, lastOp, lastErr, lastArgs, pre, heldSeen,
                   firstInputSize, forwarded, caller>>

\* One iteration of the example loop of trainEpoch.
TrainExample ==
    /\ pc = "epoch"
    /\ tr.idx <= Len(tr.shuffledData)
    /\ \E r \in {TrainOnExample(layers, tr.shuffledData[tr.idx], learningRate)} :
      LET total == RAdd(tr.totalError, r.error)
      IN
        /\ LayersFit(r.layers)
        /\ layers' = r.layers
        /\ IF r.err # "none"
           THEN /\ pc' = "returned"
                /\ lastErr' = r.err
                /\ tr' = tr
           ELSE /\ Fits(total)
                /\ pc' = pc
                /\ lastErr' = lastErr
                /\ tr' = [tr EXCEPT !.idx = @ + 1, !.totalError = total]
        /\ UNCHANGED <<learningRate, trainingHistory, isCompiled, heap, held, budget,
                       lastOp, lastRet, lastArgs, pre, heldSeen, firstInputSize,
                       forwarded, caller>>

\* An epoch loop that does not count.
NextEpochStays(epoch) == epoch

\* epoch++ in the head of the epoch loop of train
NextEpoch(epoch) == epoch + 1

\* The rest of one iteration of the epoch loop, after the example loop: the
\* epoch's mean error is pushed, then validation and early stopping.
EpochEnd ==
    LET epochError == RDiv(tr.totalError, Num(Len(tr.trainingData.v)))
        validating == ValidationDataGiven(tr.validationData)
                      /\ PatienceGiven(tr.earlyStoppingPatience)
    IN  /\ pc = "epoch"
        /\ tr.idx > Len(tr.shuffledData)
        /\ Fits(epochError)
        /\ heap' = [heap EXCEPT ![trainingHistory] = Append(@, epochError)]
        /\ IF ~validating
           THEN /\ layers' = layers
                /\ pc' = "loop"
                /\ lastErr' = lastErr
                /\ lastRet' = lastRet
                /\ tr' = [tr EXCEPT !.epoch = NextEpoch(@), !.completed = @ + 1]
           ELSE \E v \in {evaluateValidation(layers, tr.validationData[1].v)} :
                LET improved == RLt(v.value, tr.bestValidationError)
                    counter == patienceCounterAfter(improved, tr.patienceCounter)
                    break == ~improved
                             /\ PatienceExhausted(counter, tr.earlyStoppingPatience[1])
                IN
                /\ LayersFit(v.layers)
                /\ layers' = v.layers
                /\ IF v.err # "none"
                   THEN /\ pc' = "returned"
                        /\ lastErr' = v.err
                        /\ lastRet' = lastRet
                        /\ tr' = [tr EXCEPT !.completed = @ + 1]
                   ELSE /\ Fits(v.value)
                        /\ lastErr' = lastErr
                        /\ pc' = IF break THEN "returned" ELSE "loop"
                        /\ lastRet' = IF break THEN <<"this">> ELSE lastRet
                        /\ tr' = [tr EXCEPT
                               !.bestValidationError = IF improved THEN v.value ELSE @,
                               !.patienceCounter = counter,
                               !.epoch = IF break THEN @ ELSE NextEpoch(@),
                               !.completed = @ + 1,
                               !.validationErrors = Append(@, v.value),
                               !.stopped = break]
        /\ UNCHANGED <<learningRate, trainingHistory, isCompiled, held, budget,
                       lastOp, lastArgs, pre, heldSeen, firstInputSize,
                       forwarded, caller>>

Next ==
    \/ \E a \in LayerArgs, seed \in Seeds :
            AddLayer(a.neuronCount, a.act, a.inputSize, seed)
    \/ Compile
    \/ \E inputs \in PredictArgs : Predict(inputs)
    \/ \E rate \in RateArgs : SetLearningRate(rate)
    \/ Reset
    \/ GetTrainingHistory
    \/ CallerMutates
    \/ TrainCallAny
    \/ \E js \in ShuffleDraws(Len(tr.trainingData.v)) : EpochStart(js)
    \/ TrainReturn
    \/ TrainExample
    \/ EpochEnd
    \/ Continue

Spec == Init /\ [][Next]_vars

\* A step of a train call under way.
TrainStep ==
    \/ \E js \in ShuffleDraws(Len(tr.trainingData.v)) : EpochStart(js)
    \/ TrainExample
    \/ EpochEnd
    \/ TrainReturn

\* ------------------------------------------------------------ train alone
\* Networks as addLayer builds them, the empty one included.
TrainStacks ==
    {<<>>}
    \cup {<<LayerNew(1, 1, a, seed)>> : a \in Activations, seed \in Seeds}
    \cup {<<LayerNew(2, 1, a, seed), LayerNew(1, 2, b, seed)>> :
             a \in Activations, b \in Activations, seed \in Seeds}

TrainInit ==
    /\ layers \in TrainStacks
    /\ learningRate \in {<<1, 10>>, One}
    /\ trainingHistory = 1
    /\ isCompiled = FALSE
    /\ heap = [a \in Addr |-> <<>>]
    /\ held = Null
    /\ pc = "idle"
    /\ tr = NoTrain
    /\ budget = [train |-> MaxTrains]
    /\ lastOp = "none"
    /\ lastErr = "none"
    /\ lastRet = <<>>
    /\ lastArgs = NoArgs
    /\ pre = NoSnapshot
    /\ heldSeen = <<>>
    /\ firstInputSize = Null
    /\ forwarded = {}
    /\ caller = NoCaller

\* The script calls train and nothing else.
TrainNext ==
    \/ TrainCallAny
    \/ TrainStep
    \/ Continue

\* train is one synchronous call: once it is entered, its statements are
\* executed one after the other without any await, so a step that can be
\* taken is taken. For the two steps of the example loop the condition is
\* written out with pc = "epoch" for their being enabled: the program can
\* always take them, and a state where the numbers have left the range of
\* Cap, which has no successor here, is not where a run is taken to end.
TrainRuns ==
    /\ WF_vars(\E js \in ShuffleDraws(Len(tr.trainingData.v)) : EpochStart(js))
    /\ WF_vars(TrainReturn)
    /\ \/ []<>(pc # "epoch")
       \/ []<><<TrainExample \/ EpochEnd>>_vars

TrainSpec == TrainInit /\ [][TrainNext]_vars /\ TrainRuns

\* ------------------------------------------------- a layer used on its own
\* The tests also drive a Layer and its Neurons directly.  LayerSpec is that
\* use: layers holds the one layer, whose neurons are called directly
\* (neuron.forward, neuron.updateWeights) or through the layer (layer.forward,
\* layer.reset).  At most MaxSteps successful calls are explored.
\* The behaviours explored.  Calls that throw and change nothing are explored
\* without limit; the other calls of one behaviour are at most MaxSteps and
\* are limited by one of three budgets: forward passes, updates and resets;
\* one call of each kind while the script keeps and writes an array; a
\* forward pass followed by backward passes.
LayerBudgets ==
    {[direct |-> MaxSteps, forward |-> MaxSteps, update |-> MaxSteps,
      reset |-> MaxSteps, get |-> 0, set |-> 0, write |-> 0, backward |-> 0],
     [direct |-> MaxSteps, forward |-> 1, update |-> 1, reset |-> 0,
      get |-> 1, set |-> 1, write |-> 1, backward |-> 0],
     [direct |-> MaxSteps, forward |-> 1, update |-> 0, reset |-> 0,
      get |-> 0, set |-> 0, write |-> 0, backward |-> MaxSteps]}

\* One call of the kind group is taken from the budget.
SpendDirect(group) ==
    /\ budget.direct > 0 /\ budget[group] > 0
    /\ budget' = [budget EXCEPT !.direct = @ - 1, ![group] = @ - 1]

LayerInit ==
    /\ layers \in {<<LayerNew(neuronCount, inputSize, act, seed)>> :
                      neuronCount \in {1, 2}, inputSize \in {1, 2},
                      act \in Activations \cup CallerActivations, seed \in Seeds}
    /\ learningRate = <<1, 10>>
    /\ trainingHistory = 1
    /\ isCompiled = FALSE
    /\ heap = [a \in Addr |-> <<>>]
    /\ held = Null
    /\ pc = "idle"
    /\ tr = NoTrain
    /\ budget \in LayerBudgets
    /\ lastOp = "none"
    /\ lastErr = "none"
    /\ lastRet = <<>>
    /\ lastArgs = NoArgs
    /\ pre = NoSnapshot
    /\ heldSeen = <<>>
    /\ firstInputSize = Null
    /\ forwarded = {}
    /\ caller = [ref |-> NoCaller,
                 fed |-> [j \in 1..Len(layers[1].neurons) |-> Null]]

\* In LayerSpec caller.ref is empty or holds the one array the script has
\* kept, and caller.fed[j] is the contents the argument of neuron j's last
\* successful forward had when it was passed.  The array kept is of kind
\*   "connectionWeights": the result of layer.getConnectionWeights();
\*   "getWeights": the weights of the object neuron j's getWeights returned;
\*   "setWeights": the array passed to neuron j's setWeights;
\*   "inputs": the array passed to a forward.
\* live is the set of neurons that refer to the very same array (for
\* "connectionWeights": the neurons j whose this.weights is entry j), v the
\* contents of what is the script's alone, and since the neurons whose
\* setWeights has succeeded since the array was kept.
Ref(kind, j, v, live) == [kind |-> kind, j |-> j, v |-> v, live |-> live, since |-> {}]

\* What the script reads in the array it keeps.
RefContents(r, layer) ==
    IF r.kind = "connectionWeights"
    THEN [j \in 1..Len(r.v) |->
             IF j \in r.live THEN layer.neurons[j].weights ELSE r.v[j]]
    ELSE IF r.live = {} THEN r.v
    ELSE IF r.kind = "inputs"
    THEN layer.neurons[CHOOSE j \in r.live : TRUE].lastInputs[1]
    ELSE layer.neurons[r.j].weights

\* The script keeps the first array it is given or passes.
Keep(c, r) == IF c.ref = NoCaller THEN [c EXCEPT !.ref = <<r>>] ELSE c

\* What the script holds once the neurons in replaced have assigned a new
\* array to this.weights (what = "weights") or to this.lastInputs
\* (what = "inputs"): an array that was one of these lives on with the
\* contents it had.
Replaced(c, layer, what, replaced) ==
    IF c.ref = NoCaller THEN c
    ELSE LET r == c.ref[1]
             live == r.live \ replaced
         IN  IF (what = "inputs") # (r.kind = "inputs") THEN c
             ELSE [c EXCEPT !.ref = <<[r EXCEPT
                      !.live = live,
                      !.since = IF what = "weights" THEN @ \cup replaced ELSE @,
                      !.v = IF r.kind = "connectionWeights"
                            THEN [j \in 1..Len(r.v) |->
                                     IF j \in r.live \cap replaced
                                     THEN layer.neurons[j].weights ELSE r.v[j]]
                            ELSE IF live = {} /\ r.live # {}
                            THEN RefContents(r, layer) ELSE r.v]>>]

InputArgs == {NotArray, Arr(<<One>>), Arr(<<One, Zero>>), Arr(<<NaN>>)}
DeltaArgs == {One, <<-1, 2>>}
DirectRateArgs == {One, <<1, 2>>}

\* neuron.forward(inputs, activationFunction.func) on neuron j of the layer
DirectNeuronForward(j, inputs) ==
    /\ pc = "idle"
    /\ j \in 1..Len(layers[1].neurons)
    /\ \E r \in {NeuronForward(layers[1].neurons[j], inputs,
                               layers[1].activationFunction)} :
        /\ pc' = "returned"
        /\ Called("neuron.forward", [j |-> j, inputs |-> inputs])
        /\ lastErr' = r.err
        /\ lastRet' = <<r.out>>
        /\ NeuronFits(r.neuron)
        /\ layers' = [layers EXCEPT ![1].neurons[j] = r.neuron]
        /\ IF r.err = "none"
           THEN /\ SpendDirect("forward")
                /\ forwarded' = forwarded \cup {j}
                /\ caller' =
                     Keep([Replaced(caller, layers[1], "inputs", {j})
                              EXCEPT !.fed[j] = Some(inputs.v)],
                          IF ForwardKeeps(inputs.v).own
                          THEN Ref("inputs", j, inputs.v, {})
                          ELSE Ref("inputs", j, <<>>, {j}))
           ELSE UNCHANGED <<budget, forwarded, caller>>
    /\ UNCHANGED <<learningRate, trainingHistory, isCompiled, heap, held, tr,
                   heldSeen, firstInputSize>>

\* neuron.updateWeights(delta, learningRate) on neuron j of the layer
DirectUpdateWeights(j, delta, rate) ==
    /\ pc = "idle"
    /\ j \in 1..Len(layers[1].neurons)
    /\ \E r \in {NeuronUpdateWeights(layers[1].neurons[j], delta, rate)} :
        /\ pc' = "returned"
        /\ Called("neuron.updateWeights", [j |-> j, delta |-> delta, rate |-> rate])
        /\ lastErr' = r.err
        /\ lastRet' = <<>>
        /\ NeuronFits(r.neuron)
        /\ layers' = [layers EXCEPT ![1].neurons[j] = r.neuron]
        /\ IF r.err = "none" THEN SpendDirect("update") ELSE budget' = budget
    /\ UNCHANGED <<learningRate, trainingHistory, isCompiled, heap, held, tr,
                   heldSeen, firstInputSize, forwarded, caller>>

\* layer.forward(inputs)
DirectLayerForward(inputs) ==
    /\ pc = "idle"
    /\ \E r \in {LayerForward(layers[1], inputs)} :
        /\ pc' = "returned"
        /\ Called("layer.forward", [inputs |-> inputs])
        /\ lastErr' = r.err
        /\ lastRet' = r.out
        /\ LayerFits(r.layer)
        /\ layers' = <<r.layer>>
        \* every neuron is given the same inputs, so the first forward
        \* throws if any does: none has returned when layer.forward throws
        /\ IF r.err = "none"
           THEN /\ SpendDirect("forward")
                /\ forwarded' = forwarded \cup (1..Len(layers[1].neurons))
                /\ caller' =
                     LET all == 1..Len(layers[1].neurons)
                     IN  Keep([Replaced(caller, layers[1], "inputs", all)
                                  EXCEPT !.fed = [j \in all |-> Some(inputs.v)]],
                              IF ForwardKeeps(inputs.v).own
                              THEN Ref("inputs", 0, inputs.v, {})
                              ELSE Ref("inputs", 0, <<>>, all))
           ELSE UNCHANGED <<budget, forwarded, caller>>
    /\ UNCHANGED <<learningRate, trainingHistory, isCompiled, heap, held, tr,
                   heldSeen, firstInputSize>>

\* layer.reset()
DirectLayerReset ==
    /\ pc = "idle"
    /\ pc' = "returned"
    /\ Called("layer.reset", NoArgs)
    /\ lastErr' = "none"
    /\ lastRet' = <<>>
    /\ layers' = <<LayerReset(layers[1])>>
    /\ forwarded' = {}
    /\ caller' = LET all == 1..Len(layers[1].neurons)
                 IN  [Replaced(caller, layers[1], "inputs", all)
                         EXCEPT !.fed = [j \in all |-> Null]]
    /\ SpendDirect("reset")
    /\ UNCHANGED <<learningRate, trainingHistory, isCompiled, heap, held, tr,
                   heldSeen, firstInputSize>>

\* const connectionWeights = layer.getConnectionWeights()
DirectGetConnectionWeights ==
    /\ pc = "idle"
    /\ budget.get > 0
    /\ caller.ref = NoCaller
    /\ pc' = "returned"
    /\ Called("layer.getConnectionWeights", NoArgs)
    /\ lastErr' = "none"
    /\ lastRet' = <<>>
    /\ caller' =
         LET all == 1..Len(layers[1].neurons)
             w == LayerGetConnectionWeights(layers[1])
             shared == {j \in all : ~ConnectionWeightsEntry(w[j]).own}
         IN  Keep(caller, Ref("connectionWeights", 0,
                              [j \in all |-> IF j \in shared THEN <<>> ELSE w[j]],
                              shared))
    /\ SpendDirect("get")
    /\ UNCHANGED <<layers, learningRate, trainingHistory, isCompiled, heap, held,
                   tr, heldSeen, firstInputSize, forwarded>>

\* const weights = neuron.getWeights() on neuron j of the layer
DirectGetWeights(j) ==
    /\ pc = "idle"
    /\ budget.get > 0
    /\ caller.ref = NoCaller
    /\ j \in 1..Len(layers[1].neurons)
    /\ pc' = "returned"
    /\ Called("neuron.getWeights", [j |-> j])
    /\ lastErr' = "none"
    /\ lastRet' = <<>>
    /\ caller' =
         LET g == NeuronGetWeights(layers[1].neurons[j])
         IN  Keep(caller, IF GetWeightsReturn(g.weights).own
                          THEN Ref("getWeights", j, g.weights, {})
                          ELSE Ref("getWeights", j, <<>>, {j}))
    /\ SpendDirect("get")
    /\ UNCHANGED <<layers, learningRate, trainingHistory, isCompiled, heap, held,
                   tr, heldSeen, firstInputSize, forwarded>>

WeightArgs == {NotArray, Arr(<<Num(2)>>), Arr(<<Num(2), Num(3)>>)}
BiasArgs == {Num(5)}

\* neuron.setWeights(weights, bias) on neuron j of the layer
DirectSetWeights(j, weights, bias) ==
    /\ pc = "idle"
    /\ budget.set > 0
    /\ j \in 1..Len(layers[1].neurons)
    /\ \E r \in {NeuronSetWeights(layers[1].neurons[j], weights, bias)} :
        /\ pc' = "returned"
        /\ Called("neuron.setWeights", [j |-> j, weights |-> weights, bias |-> bias])
        /\ lastErr' = r.err
        /\ lastRet' = <<>>
        /\ layers' = [layers EXCEPT ![1].neurons[j] = r.neuron]
        /\ IF r.err = "none"
           THEN /\ SpendDirect("set")
                /\ caller' = Keep(Replaced(caller, layers[1], "weights", {j}),
                                  IF SetWeightsKeeps(weights.v).own
                                  THEN Ref("setWeights", j, weights.v, {})
                                  ELSE Ref("setWeights", j, <<>>, {j}))
           ELSE UNCHANGED <<budget, caller>>
    /\ UNCHANGED <<learningRate, trainingHistory, isCompiled, heap, held, tr,
                   heldSeen, firstInputSize, forwarded>>

\* Arguments of layer.setWeights: arrays of one or two entries whose weights
\* have one or two elements, and a string.
WeightsDataArgs ==
    LET entries == {WeightsEntry(Arr(<<Num(2)>>), Num(5)),
                    WeightsEntry(Arr(<<Num(2), Num(3)>>), Num(5))}
    IN  {NotArray} \cup {Arr(<<a>>) : a \in entries}
        \cup {Arr(<<a, b>>) : a \in entries, b \in entries}

\* The neurons whose setWeights returns during layer.setWeights(weightsData).
NeuronsSet(layer, weightsData) ==
    IF ~weightsData.arr \/ Len(weightsData.v) # Len(layer.neurons) THEN {}
    ELSE {j \in 1..Len(layer.neurons) :
             \A m \in 1..j :
                 NeuronSetWeights(layer.neurons[m], weightsData.v[m].weights,
                                  weightsData.v[m].bias).err = "none"}

\* layer.setWeights(weightsData)
DirectLayerSetWeights(weightsData) ==
    /\ pc = "idle"
    /\ budget.set > 0
    /\ \E r \in {LayerSetWeights(layers[1], weightsData)} :
        /\ pc' = "returned"
        /\ Called("layer.setWeights", [weightsData |-> weightsData])
        /\ lastErr' = r.err
        /\ lastRet' = <<>>
        /\ layers' = <<r.layer>>
        /\ caller' = Replaced(caller, layers[1], "weights",
                              NeuronsSet(layers[1], weightsData))
        /\ IF r.err = "none" \/ r.layer # layers[1]
           THEN SpendDirect("set") ELSE budget' = budget
    /\ UNCHANGED <<learningRate, trainingHistory, isCompiled, heap, held, tr,
                   heldSeen, firstInputSize, forwarded>>

TargetArgs == {NotArray, Arr(<<One>>), Arr(<<One, Zero>>), Arr(<<One, Zero, One>>)}

\* layer.backwardOutput(targets, learningRate)
DirectBackwardOutput(targets, rate) ==
    /\ pc = "idle"
    /\ budget.backward > 0
    /\ \E r \in {LayerBackwardOutput(layers[1], targets, rate)} :
        /\ pc' = "returned"
        /\ Called("layer.backwardOutput", [targets |-> targets, rate |-> rate])
        /\ lastErr' = r.err
        /\ lastRet' = r.deltas
        /\ LayerFits(r.layer)
        /\ layers' = <<r.layer>>
        /\ IF r.err = "none" \/ r.layer # layers[1]
           THEN SpendDirect("backward") ELSE budget' = budget
    /\ UNCHANGED <<learningRate, trainingHistory, isCompiled, heap, held, tr,
                   heldSeen, firstInputSize, forwarded, caller>>

NextDeltaArgs == {NotArray, Arr(<<One>>), Arr(<<One, <<1, 2>>>>)}
NextWeightArgs == {NotArray, Arr(<<<<One, One>>>>),
                   Arr(<<<<One, One>>, <<Zero, One>>>>)}

\* layer.backwardHidden(nextLayerDeltas, nextLayerWeights, learningRate)
DirectBackwardHidden(nextDeltas, nextWeights, rate) ==
    /\ pc = "idle"
    /\ budget.backward > 0
    /\ \E r \in {LayerBackwardHidden(layers[1], nextDeltas, nextWeights, rate)} :
        /\ pc' = "returned"
        /\ Called("layer.backwardHidden",
                  [nextDeltas |-> nextDeltas, nextWeights |-> nextWeights,
                   rate |-> rate])
        /\ lastErr' = r.err
        /\ lastRet' = r.deltas
        /\ LayerFits(r.layer)
        /\ layers' = <<r.layer>>
        /\ IF r.err = "none" \/ r.layer # layers[1]
           THEN SpendDirect("backward") ELSE budget' = budget
    /\ UNCHANGED <<learningRate, trainingHistory, isCompiled, heap, held, tr,
                   heldSeen, firstInputSize, forwarded, caller>>

\* The script writes 999 into element 0 of the array it keeps (of entry j
\* of it, for the result of getConnectionWeights).
DirectCallerWrites(j) ==
    /\ pc = "idle"
    /\ budget.write > 0
    /\ caller.ref # NoCaller
    /\ IF caller.ref[1].kind = "connectionWeights"
       THEN j \in 1..Len(layers[1].neurons) ELSE j = 1
    /\ pc' = "returned"
    /\ Called("callerWrites", [j |-> j])
    /\ lastErr' = "none"
    /\ lastRet' = <<>>
    /\ LET r == caller.ref[1]
           now == RefContents(r, layers[1])
       IN  IF r.kind = "connectionWeights"
           THEN LET written == [now[j] EXCEPT ![1] = Num(999)]
                IN  IF j \in r.live
                    THEN /\ layers' = [layers EXCEPT ![1].neurons[j].weights = written]
                         /\ caller' = caller
                    ELSE /\ layers' = layers
                         /\ caller' = [caller EXCEPT !.ref[1].v[j] = written]
           ELSE LET written == [now EXCEPT ![1] = Num(999)]
                IN  IF r.live = {}
                    THEN /\ layers' = layers
                         /\ caller' = [caller EXCEPT !.ref[1].v = written]
                    ELSE /\ caller' = caller
                         /\ layers' =
                              [layers EXCEPT ![1].neurons =
                                  [k \in 1..Len(layers[1].neurons) |->
                                      IF k \notin r.live THEN layers[1].neurons[k]
                                      ELSE IF r.kind = "inputs"
                                      THEN [layers[1].neurons[k]
                                               EXCEPT !.lastInputs = Some(written)]
                                      ELSE [layers[1].neurons[k]
                                               EXCEPT !.weights = written]]]
    /\ SpendDirect("write")
    /\ UNCHANGED <<learningRate, trainingHistory, isCompiled, heap, held, tr,
                   heldSeen, firstInputSize, forwarded>>

LayerNext ==
    \/ \E j \in 1..2, inputs \in InputArgs : DirectNeuronForward(j, inputs)
    \/ \E j \in 1..2, delta \in DeltaArgs, rate \in DirectRateArgs :
            DirectUpdateWeights(j, delta, rate)
    \/ \E inputs \in InputArgs : DirectLayerForward(inputs)
    \/ DirectLayerReset
    \/ DirectGetConnectionWeights
    \/ \E j \in 1..2 : DirectGetWeights(j)
    \/ \E j \in 1..2, weights \in WeightArgs, bias \in BiasArgs :
            DirectSetWeights(j, weights, bias)
    \/ \E weightsData \in WeightsDataArgs : DirectLayerSetWeights(weightsData)
    \/ \E targets \in TargetArgs, rate \in DirectRateArgs :
            DirectBackwardOutput(targets, rate)
    \/ \E nextDeltas \in NextDeltaArgs, nextWeights \in NextWeightArgs,
          rate \in DirectRateArgs :
            DirectBackwardHidden(nextDeltas, nextWeights, rate)
    \/ \E j \in 1..2 : DirectCallerWrites(j)
    \/ Continue

LayerSpec == LayerInit /\ [][LayerNext]_vars

\* ---------------------------------- a network whose caller keeps a result
\* PredictSpec is a network of one or two layers on which the calling script
\* runs predict, keeps the vector it returned and writes into it.  caller is
\* empty or holds one record: v, the contents of the array the script holds
\* (unused while that array is layer shares' this.outputs itself, shares = 0
\* meaning an array of its own); seen, what the script last saw or wrote in
\* it; later, whether a forward pass has run since it was returned.
PredictStacks ==
    {<<LayerNew(1, 1, act, seed)>> : act \in Activations, seed \in Seeds}
    \cup {<<LayerNew(2, 1, act, seed), LayerNew(1, 2, act2, seed)>> :
             act \in Activations, act2 \in Activations, seed \in Seeds}

PredictInit ==
    /\ layers \in PredictStacks
    /\ learningRate = <<1, 10>>
    /\ trainingHistory = 1
    /\ isCompiled = FALSE
    /\ heap = [a \in Addr |-> <<>>]
    /\ held = Null
    /\ pc = "idle"
    /\ tr = NoTrain
    /\ budget = [direct |-> MaxSteps]
    /\ lastOp = "none"
    /\ lastErr = "none"
    /\ lastRet = <<>>
    /\ lastArgs = NoArgs
    /\ pre = NoSnapshot
    /\ heldSeen = <<>>
    /\ firstInputSize = Null
    /\ forwarded = {}
    /\ caller = NoCaller

\* The contents of the array the script holds.
ResultContents(c, ls) == IF c.shares > 0 THEN ls[c.shares].outputs ELSE c.v

\* The layers whose forward returns during predict(inputs): layer i is
\* reached and returns exactly if the loop gets through layers 1..i.
ForwardedLayers(ls, inputs) ==
    {i \in 1..Len(ls) : NetworkPredict(SubSeq(ls, 1, i), inputs).err = "none"}

\* What the script holds once the layers in replaced have assigned a new
\* array to this.outputs: an array that was one of these lives on with the
\* contents it had.
Detached(c, ls, replaced) ==
    IF c = NoCaller THEN c
    ELSE <<[c[1] EXCEPT !.v = ResultContents(c[1], ls),
                        !.shares = IF @ \in replaced THEN 0 ELSE @,
                        !.later = @ \/ replaced # {}]>>

ResultArgs == {NotArray, Arr(<<One>>), Arr(<<Num(2)>>), Arr(<<Infinity>>)}

\* network.predict(inputs), the script keeping the vector returned
\* (const out = network.predict(inputs)) when assign, dropping it otherwise.
PredictAndKeep(inputs, assign) ==
    /\ pc = "idle"
    /\ \E r \in {NetworkPredict(layers, inputs)} :
        /\ pc' = "returned"
        /\ Called("predict", [inputs |-> inputs, assign |-> assign])
        /\ LayersFit(r.layers)
        /\ layers' = r.layers
        /\ lastErr' = r.err
        /\ lastRet' = r.out
        /\ IF r.err = "none" THEN Spend("direct") ELSE budget' = budget
        /\ caller' = IF r.err = "none" /\ assign
                     THEN <<[v |-> r.out, seen |-> r.out, later |-> FALSE,
                             shares |-> IF ForwardReturn(r.out).own THEN 0
                                        ELSE Len(layers)]>>
                     ELSE Detached(caller, layers, ForwardedLayers(layers, inputs))
    /\ UNCHANGED <<learningRate, trainingHistory, isCompiled, heap, held, tr,
                   heldSeen, firstInputSize, forwarded>>

\* The script writes into the vector it holds: out[0] = 999.
CallerWritesResult ==
    /\ pc = "idle"
    /\ caller # NoCaller
    /\ pc' = "returned"
    /\ Called("callerWrites", NoArgs)
    /\ lastErr' = "none"
    /\ lastRet' = <<>>
    /\ LET c == caller[1]
           written == [ResultContents(c, layers) EXCEPT ![1] = Num(999)]
       IN  /\ caller' = <<[c EXCEPT !.v = written, !.seen = written]>>
           /\ layers' = IF c.shares > 0
                        THEN [layers EXCEPT ![c.shares].outputs = written]
                        ELSE layers
    /\ Spend("direct")
    /\ UNCHANGED <<learningRate, trainingHistory, isCompiled, heap, held, tr,
                   heldSeen, firstInputSize, forwarded>>

PredictNext ==
    \/ \E inputs \in ResultArgs, assign \in BOOLEAN : PredictAndKeep(inputs, assign)
    \/ CallerWritesResult
    \/ Continue

PredictSpec == PredictInit /\ [][PredictNext]_vars

\* ------------------------------------------- backpropagate, step by step
\* BackpropSpec follows one call of Network.backpropagate(targets) statement
\* by statement, on a network of one to three layers whose forward pass has
\* run.  tr is the frame of the call: its argument, the loop index i
\* (1-based), the local deltas, and log, one record for each backward call
\* made on a layer so far: the layer, the method, the deltas passed and
\* returned, and the layer's weights and biases when the method returned.
BackpropStacks ==
    {<<LayerNew(1, 1, a, seed)>> : a \in Activations, seed \in Seeds}
    \cup {<<LayerNew(2, 1, a, seed), LayerNew(1, 2, b, seed)>> :
             a \in Activations, b \in Activations, seed \in Seeds}
    \cup {<<LayerNew(2, 1, a, seed), LayerNew(2, 2, b, seed), LayerNew(1, 2, c, seed)>> :
             a \in Activations, b \in Activations, c \in Activations,
             seed \in Seeds}

BackpropInit ==
    /\ layers \in {NetworkPredict(stack, inputs).layers :
                      stack \in BackpropStacks, inputs \in {Arr(<<One>>), Arr(<<Num(2)>>)}}
    /\ learningRate \in {<<1, 10>>, One}
    /\ trainingHistory = 1
    /\ isCompiled = FALSE
    /\ heap = [a \in Addr |-> <<>>]
    /\ held = Null
    /\ pc = "idle"
    /\ tr = NoTrain
    /\ budget = [direct |-> MaxSteps]
    /\ lastOp = "none"
    /\ lastErr = "none"
    /\ lastRet = <<>>
    /\ lastArgs = NoArgs
    /\ pre = NoSnapshot
    /\ heldSeen = <<>>
    /\ firstInputSize = Null
    /\ forwarded = {}
    /\ caller = NoCaller

BackpropTargetArgs == {<<One>>, <<Zero>>, <<One, Zero>>}

\* for (let i = this.layers.length - 2; i >= 0; i--): the index after i.
NextLowerSkipping(i) == i - 2

NextLower(i) == i - 1

\* A backpropagate that reads the next layer as the call found it, before
\* any update of this pass.
nextLayerAsForwarded(ls, i) == pre.layers[i + 1]

\* const nextLayer = this.layers[i + 1]
nextLayer(ls, i) == ls[i + 1]

\* network.backpropagate(targets) is called: let deltas = []
BackpropCall(targets) ==
    /\ pc = "idle"
    /\ pc' = "output"
    /\ Called("backpropagate", [targets |-> targets])
    /\ lastErr' = "none"
    /\ lastRet' = <<>>
    /\ tr' = [targets |-> targets, i |-> Len(layers), deltas |-> <<>>, log |-> <<>>]
    /\ Spend("direct")
    /\ UNCHANGED <<layers, learningRate, trainingHistory, isCompiled, heap, held,
                   heldSeen, firstInputSize, forwarded, caller>>

\* deltas = outputLayer.backwardOutput(targets, this.learningRate)
BackwardOutputStep ==
    /\ pc = "output"
    /\ \E r \in {LayerBackwardOutput(layers[Len(layers)], Arr(tr.targets),
                                     learningRate)} :
        /\ LayerFits(r.layer)
        /\ layers' = [layers EXCEPT ![Len(layers)] = r.layer]
        /\ lastErr' = r.err
        /\ IF r.err # "none"
           THEN pc' = "returned" /\ tr' = tr
           ELSE /\ pc' = "hidden"
                /\ tr' = [tr EXCEPT
                       !.deltas = r.deltas,
                       !.i = NextLower(Len(layers)),
                       !.log = Append(@, [layer |-> Len(layers),
                                          method |-> "backwardOutput",
                                          passed |-> <<>>,
                                          returned |-> r.deltas,
                                          after |-> LayerParameters(r.layer)])]
    /\ UNCHANGED <<learningRate, trainingHistory, isCompiled, heap, held, budget,
                   lastOp, lastRet, lastArgs, pre, heldSeen, firstInputSize,
                   forwarded, caller>>

\* One iteration of the loop over the hidden layers.
BackwardHiddenStep ==
    /\ pc = "hidden"
    /\ tr.i >= 1
    /\ \E r \in {LayerBackwardHidden(
                     layers[tr.i], Arr(tr.deltas),
                     Arr(LayerGetConnectionWeights(nextLayer(layers, tr.i))),
                     learningRate)} :
        /\ LayerFits(r.layer)
        /\ layers' = [layers EXCEPT ![tr.i] = r.layer]
        /\ lastErr' = r.err
        /\ IF r.err # "none"
           THEN pc' = "returned" /\ tr' = tr
           ELSE /\ pc' = "hidden"
                /\ tr' = [tr EXCEPT
                       !.deltas = r.deltas,
                       !.i = NextLower(tr.i),
                       !.log = Append(@, [layer |-> tr.i,
                                          method |-> "backwardHidden",
                                          passed |-> tr.deltas,
                                          returned |-> r.deltas,
                                          after |-> LayerParameters(r.layer)])]
    /\ UNCHANGED <<learningRate, trainingHistory, isCompiled, heap, held, budget,
                   lastOp, lastRet, lastArgs, pre, heldSeen, firstInputSize,
                   forwarded, caller>>

\* The loop is over: backpropagate returns.
BackpropReturn ==
    /\ pc = "hidden"
    /\ tr.i < 1
    /\ pc' = "returned"
    /\ UNCHANGED <<layers, learningRate, trainingHistory, isCompiled, heap, held,
                   tr, budget, lastOp, lastErr, lastRet, lastArgs, pre, heldSeen,
                   firstInputSize, forwarded, caller>>

BackpropNext ==
    \/ \E targets \in BackpropTargetArgs : BackpropCall(targets)
    \/ BackwardOutputStep
    \/ BackwardHiddenStep
    \/ BackpropReturn
    \/ Continue

BackpropSpec == BackpropInit /\ [][BackpropNext]_vars

\* ================================================================== claims
\* The last call was op and has returned or thrown.
Returned(op) == pc = "returned" /\ lastOp = op

\* The weights and bias of every neuron of every layer.
Parameters(ls) ==
    [i \in 1..Len(ls) |->
        [j \in 1..Len(ls[i].neurons) |->
            [weights |-> ls[i].neurons[j].weights, bias |-> ls[i].neurons[j].bias]]]

\* ---------------------------------------------------------------------- C1
\* C1: a train call that fails, for whatever reason, leaves trainingHistory,
\* isCompiled and every weight and bias as they were before the call.
C1_FailedTrainChangesNothing ==
    (Returned("train") /\ lastErr # "none")
        => /\ History = pre.history
           /\ isCompiled = pre.isCompiled
           /\ Parameters(layers) = Parameters(pre.layers)

\* ---------------------------------------------------------------------- C2
\* The train call that has just returned asked for early stopping.
EarlyStopping ==
    ValidationDataGiven(tr.validationData) /\ PatienceGiven(tr.earlyStoppingPatience)

\* C2 as stated: after a successful train, trainingHistory.length is the
\* number of epochs executed; it is epochs when the early stop did not fire
\* and strictly less than epochs whenever it fired.
C2_AsStated ==
    (Returned("train") /\ lastErr = "none")
        => /\ Len(History) = tr.completed
           /\ ~tr.stopped => Len(History) = tr.epochs
           /\ tr.stopped => Len(History) < tr.epochs

\* C2, amended: after a successful train, trainingHistory.length is the
\* number of epochs executed, which is at most epochs; it is epochs when the
\* early stop did not fire, and when it fired it is the number of the epoch
\* in which it fired (which may be the last one, so the length may be epochs).
C2_HistoryLengthIsEpochsExecuted ==
    (Returned("train") /\ lastErr = "none")
        => /\ Len(History) = tr.completed
           /\ Len(History) <= tr.epochs
           /\ ~tr.stopped => Len(History) = tr.epochs
           /\ tr.stopped => EarlyStopping /\ Len(History) = tr.epoch + 1

\* A second train call stopped early in its last epoch.
C2_Witness ==
    /\ Returned("train") /\ lastErr = "none"
    /\ tr.stopped
    /\ Len(History) = tr.epochs
    /\ Len(pre.history) > 0

\* ---------------------------------------------------------------------- C3
\* Epoch k of the call improved: its validation error is a number below
\* Infinity and strictly lower than that of every earlier epoch of the call.
Improved(errors, k) ==
    /\ RLt(errors[k], Infinity)
    /\ \A m \in 1..(k - 1) : RLt(errors[k], errors[m])

\* The last epoch that improved, 0 if none did.
LastImprovement(errors) ==
    LET improving == {k \in 1..Len(errors) : Improved(errors, k)}
    IN  IF improving = {} THEN 0
        ELSE CHOOSE k \in improving : \A m \in improving : m <= k

\* The epochs of the current train call that have begun.
EpochsBegun == IF pc = "epoch" THEN tr.completed + 1 ELSE tr.completed

C4_LayersAdjacent ==
    /\ \A i \in 1..(Len(layers) - 1) : layers[i + 1].inputSize = layers[i].size
    /\ Len(layers) >= 1
          => ~IsNull(firstInputSize) /\ Num(layers[1].inputSize) = firstInputSize[1]
    /\ (Returned("addLayer") /\ lastErr = "none" /\ Len(pre.layers) >= 1)
          => /\ Len(layers) = Len(pre.layers) + 1
             /\ layers[Len(layers)].inputSize = pre.layers[Len(pre.layers)].size
             /\ \A i \in 1..Len(pre.layers) :
                   layers[i].inputSize = pre.layers[i].inputSize

\* A second layer was added with an inputSize that is not the first layer's
\* size.
C4_Witness ==
    /\ Returned("addLayer") /\ lastErr = "none"
    /\ Len(layers) = 2
    /\ ~IsNull(lastArgs.inputSize)
    /\ lastArgs.inputSize[1] # Num(layers[1].size)

\* ---------------------------------------------------------------------- C5
\* C5: predict returns a vector as long as the last layer's size; it fails
\* with a validation error, no layer or neuron cache changed, when inputs is
\* not a sequence, when the network has no layer and when the length of
\* inputs is not the first layer's inputSize.
C5_PredictReturnsOrRejects ==
    Returned("predict")
        => /\ lastErr = "none"
                => /\ Len(layers) >= 1
                   /\ Len(lastRet) = layers[Len(layers)].size
           /\ (\/ ~lastArgs.inputs.arr
               \/ Len(pre.layers) = 0
               \/ Len(lastArgs.inputs.v) # pre.layers[1].inputSize)
                => lastErr = "ValidationError" /\ layers = pre.layers

\* predict returned two outputs from a network whose first layer has one
\* neuron.
C5_Witness ==
    /\ Returned("predict") /\ lastErr = "none"
    /\ Len(layers) = 2
    /\ layers[1].size = 1
    /\ Len(lastRet) = 2

\* ---------------------------------------------------------------------- C6
\* The caches of a layer are empty.
CachesEmpty(layer) ==
    /\ layer.outputs = <<>>
    /\ \A j \in 1..Len(layer.neurons) :
          IsNull(layer.neurons[j].lastInputs) /\ IsNull(layer.neurons[j].lastOutput)

\* What reset must keep of a layer.
Architecture(ls) ==
    [i \in 1..Len(ls) |->
        [size |-> ls[i].size, inputSize |-> ls[i].inputSize,
         activationFunction |-> ls[i].activationFunction]]

\* C6: reset leaves trainingHistory empty, every layer's outputs empty and
\* every neuron's lastInputs and lastOutput null; weights, bias, the layer
\* list, learningRate and isCompiled are unchanged.
C6_ResetClearsCachesOnly ==
    Returned("reset")
        => /\ History = <<>>
           /\ \A i \in 1..Len(layers) : CachesEmpty(layers[i])
           /\ Parameters(layers) = Parameters(pre.layers)
           /\ Architecture(layers) = Architecture(pre.layers)
           /\ learningRate = pre.learningRate
           /\ isCompiled = pre.isCompiled

\* reset was called on a trained network of two layers.
C6_Witness ==
    /\ Returned("reset")
    /\ Len(layers) = 2
    /\ pre.isCompiled
    /\ Len(pre.history) > 0
    /\ \A i \in 1..2 : ~CachesEmpty(pre.layers[i])

\* ---------------------------------------------------------------------- C7
\* C7: getTrainingHistory returns a copy equal to trainingHistory that is not
\* the network's own array; writing into the copy leaves the network's
\* history unchanged, and a later train or reset leaves the copy as the
\* caller last saw it.
C7_HistoryCopyIsDetached ==
    /\ Returned("getTrainingHistory")
          => /\ ~IsNull(held)
             /\ held[1] # trainingHistory
             /\ heap[held[1]] = History
             /\ History = pre.history
    /\ Returned("callerMutates") => History = pre.history
    /\ ~IsNull(held) => heap[held[1]] = heldSeen

\* The caller wrote into its copy, then train ran again: the network's
\* history and the copy now differ.
C7_Witness ==
    /\ Returned("train") /\ lastErr = "none"
    /\ ~IsNull(held)
    /\ heldSeen = <<Num(999)>>
    /\ Len(History) > 0
    /\ History # heldSeen

\* ---------------------------------------------------------------------- C8
\* C8: Neuron.updateWeights fails with a state error exactly when lastInputs
\* is null, that is when no forward of the neuron has returned since it was
\* constructed or since the last Layer.reset; when it fails, weights and bias
\* are unchanged.
C8_UpdateWeightsNeedsForward ==
    /\ \A j \in 1..Len(layers[1].neurons) :
          IsNull(layers[1].neurons[j].lastInputs) <=> j \notin forwarded
    /\ Returned("neuron.updateWeights")
          => /\ (lastErr = "StateError")
                    <=> IsNull(pre.layers[1].neurons[lastArgs.j].lastInputs)
             /\ lastErr \in {"none", "StateError"}
             /\ lastErr # "none" => layers = pre.layers

\* updateWeights failed on a neuron that has not been fed while the other
\* neuron of its layer has.
C8_Witness ==
    /\ Returned("neuron.updateWeights")
    /\ lastErr = "StateError"
    /\ forwarded # {}

\* ---------------------------------------------------------------------- C9
\* C9: setLearningRate fails, learningRate unchanged, for every rate that is
\* not a finite number greater than 0; learningRate is finite and positive
\* in every reachable state.
C9_LearningRateFinitePositive ==
    /\ IsFinite(learningRate) /\ RLt(Zero, learningRate)
    /\ Returned("setLearningRate")
          => LET rate == lastArgs.rate
             IN  ~(rate.num /\ IsFinite(rate.v) /\ RLt(Zero, rate.v))
                    => lastErr = "ValidationError" /\ learningRate = pre.learningRate

\* --------------------------------------------------------------------- C10
\* An example has both fields.
HasBothFields(example) == ~IsNull(example.input) /\ ~IsNull(example.target)

\* Training data the specification rejects: not a non-empty sequence, an
\* example at any position without input or target, inputs of different
\* lengths or targets of different lengths.
Malformed(trainingData) ==
    \/ ~trainingData.arr
    \/ trainingData.v = <<>>
    \/ \E i \in 1..Len(trainingData.v) : ~HasBothFields(trainingData.v[i])
    \/ \E i, k \in 1..Len(trainingData.v) :
          \/ Len(trainingData.v[i].input[1]) # Len(trainingData.v[k].input[1])
          \/ Len(trainingData.v[i].target[1]) # Len(trainingData.v[k].target[1])

\* C10: train fails with a validation error, before any epoch and any weight
\* change, when its data is malformed.
C10_MalformedDataRejected ==
    (Returned("train") /\ Malformed(tr.trainingData))
        => /\ lastErr = "ValidationError"
           /\ tr.completed = 0
           /\ Parameters(layers) = Parameters(pre.layers)

\* --------------------------------------------------------------------- C11
\* C11: a new network has isCompiled false; every successful addLayer sets
\* isCompiled to false; compile on a network without layers fails and leaves
\* isCompiled false, otherwise it sets isCompiled to true; every successful
\* train call returns with isCompiled true, compile called or not.
C11_IsCompiledLifecycle ==
    /\ budget \in Budgets => ~isCompiled
    /\ (Returned("addLayer") /\ lastErr = "none") => ~isCompiled
    /\ Returned("compile")
          => IF Len(pre.layers) = 0
             THEN lastErr = "ValidationError" /\ ~isCompiled
             ELSE lastErr = "none" /\ isCompiled
    /\ (Returned("train") /\ lastErr = "none") => isCompiled

\* train returned on a network that was not compiled when it was called.
C11_Witness ==
    /\ Returned("train") /\ lastErr = "none"
    /\ ~pre.isCompiled
    /\ tr.completed > 0

KeepsConnectionWeights ==
    caller.ref # NoCaller /\ caller.ref[1].kind = "connectionWeights"

\* C13 as stated: whatever happened since getConnectionWeights returned,
\* writing result[j][0] changes weight 0 of neuron j, and after an
\* updateWeights of neuron j the result shows neuron j's weights.
C13_AsStated ==
    /\ (Returned("callerWrites") /\ KeepsConnectionWeights)
          => layers[1].neurons[lastArgs.j].weights[1] = Num(999)
    /\ (Returned("neuron.updateWeights") /\ lastErr = "none" /\ KeepsConnectionWeights)
          => RefContents(caller.ref[1], layers[1])[lastArgs.j]
                = layers[1].neurons[lastArgs.j].weights

\* C13: getConnectionWeights returns each neuron's weights array itself.  As
\* long as no setWeights has given neuron j a new array since, writing
\* result[j][0] changes weight 0 of neuron j, and after an updateWeights of
\* neuron j the result shows neuron j's weights.
C13_LiveUntilSetWeights ==
    /\ (Returned("callerWrites") /\ KeepsConnectionWeights
            /\ lastArgs.j \notin caller.ref[1].since)
          => layers[1].neurons[lastArgs.j].weights[1] = Num(999)
    /\ (Returned("neuron.updateWeights") /\ lastErr = "none" /\ KeepsConnectionWeights
            /\ lastArgs.j \notin caller.ref[1].since)
          => RefContents(caller.ref[1], layers[1])[lastArgs.j]
                = layers[1].neurons[lastArgs.j].weights

\* updateWeights has changed the weights of a neuron whose array the script
\* got from getConnectionWeights before.
C13_Witness ==
    /\ Returned("neuron.updateWeights") /\ lastErr = "none"
    /\ KeepsConnectionWeights
    /\ lastArgs.j \notin caller.ref[1].since
    /\ layers[1].neurons[lastArgs.j].weights # pre.layers[1].neurons[lastArgs.j].weights

\* --------------------------------------------------------------------- C14
\* C14: writing into the weights of the object getWeights returned, or into
\* the array that was passed to setWeights, changes no weight and no bias;
\* a setWeights whose array has another length than the neuron's weights
\* throws and changes no weight and no bias.
C14_WeightsCopiedBothWays ==
    /\ (Returned("callerWrites") /\ caller.ref[1].kind \in {"getWeights", "setWeights"})
          => Parameters(layers) = Parameters(pre.layers)
    /\ (Returned("neuron.setWeights")
            /\ Len(lastArgs.weights.v) # Len(pre.layers[1].neurons[lastArgs.j].weights))
          => lastErr # "none" /\ Parameters(layers) = Parameters(pre.layers)

\* The script has written 999 into the weights it got from getWeights, and
\* the neuron's weight is another number.
C14_Witness ==
    /\ Returned("callerWrites")
    /\ caller.ref[1].kind = "getWeights"
    /\ RefContents(caller.ref[1], layers[1])[1] = Num(999)
    /\ layers[1].neurons[caller.ref[1].j].weights[1] # Num(999)

\* --------------------------------------------------------------------- C15
\* C15: backwardHidden throws a validation error, and changes no weight and
\* no bias, when one of its two arguments is not an array or when they differ
\* in length; so does backwardOutput when the number of targets is not the
\* number of neurons.
C15_BackwardValidatesFirst ==
    /\ (Returned("layer.backwardHidden")
            /\ (\/ ~lastArgs.nextDeltas.arr
                \/ ~lastArgs.nextWeights.arr
                \/ Len(lastArgs.nextDeltas.v) # Len(lastArgs.nextWeights.v)))
          => lastErr = "ValidationError" /\ Parameters(layers) = Parameters(pre.layers)
    /\ (Returned("layer.backwardOutput")
            /\ lastArgs.targets.arr
            /\ Len(lastArgs.targets.v) # pre.layers[1].size)
          => lastErr = "ValidationError" /\ Parameters(layers) = Parameters(pre.layers)

\* backwardOutput is given more targets than there are neurons, on a layer
\* whose forward has returned.
C15_Witness ==
    /\ Returned("layer.backwardOutput")
    /\ lastArgs.targets.arr
    /\ Len(lastArgs.targets.v) > pre.layers[1].size
    /\ forwarded = 1..Len(layers[1].neurons)
    /\ pre.layers[1].outputs # <<>>

\* --------------------------------------------------------------------- C16
\* C16: a Layer.setWeights that throws (the data is not an array of exactly
\* size entries, or the weights of an entry have another length than
\* inputSize) has changed the weights and bias of no neuron, those before
\* the malformed entry included.
C16_FailedSetWeightsChangesNothing ==
    (Returned("layer.setWeights") /\ lastErr # "none")
        => Parameters(layers) = Parameters(pre.layers)

\* --------------------------------------------------------------------- C19
\* C19: a successful updateWeights(delta, learningRate) of a neuron adds
\* learningRate * delta * x[i] to weight i and learningRate * delta to the
\* bias, x being the contents the argument of the neuron's last successful
\* forward had when it was passed, whatever the script has written into that
\* array since; the number of weights stays the same.
C19_UpdateUsesInputsAsPassed ==
    (Returned("neuron.updateWeights") /\ lastErr = "none")
        => LET j == lastArgs.j
               old == pre.layers[1].neurons[j]
               new == layers[1].neurons[j]
               step == RMul(lastArgs.rate, lastArgs.delta)
           IN  /\ ~IsNull(caller.fed[j])
               /\ Len(new.weights) = Len(old.weights)
               /\ \A i \in 1..Len(old.weights) :
                     new.weights[i] = RAdd(old.weights[i],
                                           RMul(step, caller.fed[j][1][i]))
               /\ new.bias = RAdd(old.bias, step)

\* updateWeights has returned after the script wrote into the array it had
\* passed to the neuron's forward.
C19_Witness ==
    /\ Returned("neuron.updateWeights") /\ lastErr = "none"
    /\ caller.ref # NoCaller
    /\ caller.ref[1].kind = "inputs"
    /\ caller.ref[1].j \in {0, lastArgs.j}
    /\ RefContents(caller.ref[1], layers[1])[1] = Num(999)
    /\ caller.fed[lastArgs.j] = Some(<<One>>)
    /\ layers[1].neurons[lastArgs.j].weights # pre.layers[1].neurons[lastArgs.j].weights

\* --------------------------------------------------------------------- C17
\* s and t hold the same elements, each as often in one as in the other.
IsPermutation(s, t) ==
    /\ Len(s) = Len(t)
    /\ \A k \in 1..Len(t) :
          Cardinality({i \in 1..Len(s) : s[i] = t[k]})
             = Cardinality({i \in 1..Len(t) : t[i] = t[k]})

\* One step of a train call, as C17 has it.
EpochStepsInOrder ==
    /\ (pc # "epoch" /\ pc' = "epoch")
          => /\ tr'.idx = 1
             /\ IsPermutation(tr'.shuffledData, tr.trainingData.v)
    /\ (pc = "epoch" /\ pc' = "epoch")
          => /\ tr.idx <= Len(tr.shuffledData)
             /\ tr'.idx = tr.idx + 1
             /\ tr'.shuffledData = tr.shuffledData
             /\ LET example == tr.shuffledData[tr.idx]
                    p == NetworkPredict(layers, Arr(example.input[1]))
                    b == NetworkBackpropagate(p.layers, example.target[1],
                                              learningRate)
                IN  p.err = "none" /\ b.err = "none" /\ layers' = b.layers
    /\ (pc = "epoch" /\ pc' = "loop") => tr.idx = Len(tr.shuffledData) + 1

\* C17: an epoch works on a permutation of the training data and processes
\* its examples one by one in that order, each exactly once before the epoch
\* ends: an example is processed as predict(example.input) followed at once
\* by backpropagate(example.target), starting from the layers the example
\* before it left behind.
C17_EachExampleOnceInShuffledOrder == [][EpochStepsInOrder]_vars

\* The second example of an epoch whose shuffle has changed the order is
\* about to be processed with the weights the first one has updated.
C17_Witness ==
    /\ pc = "epoch"
    /\ tr.idx = 2
    /\ Len(tr.shuffledData) = 2
    /\ tr.shuffledData # tr.trainingData.v
    /\ Parameters(layers) # Parameters(pre.layers)

\* --------------------------------------------------------------------- C20
\* Neuron.forward and Layer.forward, applied to any neuron and layer of the
\* network predict is called on, with any argument, return a neuron and a
\* layer with the same weights and bias.
ForwardKeepsParameters ==
    \A i \in 1..Len(layers), inputs \in PredictArgs :
        /\ Parameters(<<LayerForward(layers[i], inputs).layer>>)
              = Parameters(<<layers[i]>>)
        /\ \A j \in 1..Len(layers[i].neurons) :
              LET n == NeuronForward(layers[i].neurons[j], inputs,
                                     layers[i].activationFunction).neuron
              IN  n.weights = layers[i].neurons[j].weights
                  /\ n.bias = layers[i].neurons[j].bias

\* One step of the network, as C20 has it.
ForwardStepsKeepParameters ==
    /\ lastOp' = "predict"
          => /\ Parameters(layers') = Parameters(layers)
             /\ ForwardKeepsParameters
    /\ (pc = "epoch" /\ tr.idx > Len(tr.shuffledData))
          => Parameters(layers') = Parameters(layers)
    /\ pc = "loop" => Parameters(layers') = Parameters(layers)

\* C20: forward passes change no weight and no bias: Neuron.forward,
\* Layer.forward, Network.predict and the validation evaluation at the end
\* of an epoch leave them as they are, and so does every step between the
\* end of the example loop of one epoch and the start of the next epoch.
C20_ForwardPassesKeepParameters == [][ForwardStepsKeepParameters]_vars

\* An epoch that trained the network has ended with a validation evaluation,
\* and the next epoch is about to start.
C20_Witness ==
    /\ pc = "loop"
    /\ tr.epoch < tr.epochs
    /\ Len(tr.validationErrors) > 0
    /\ Parameters(layers) # Parameters(pre.layers)

\* --------------------------------------------------------------------- C18
\* C18: during backpropagate the backward calls made so far are on the
\* layers n, n - 1, ... in this order, one call for each, backwardOutput on
\* the last layer and backwardHidden on the others; the deltas passed to a
\* layer are the vector the call on the layer above returned; a layer that
\* has had its call has the weights and biases that call left and keeps
\* them, a layer that has not had it yet has those it had when backpropagate
\* was called (the layer whose call threw excepted).  A backpropagate that returns has called every layer, and
\* the network is as Network.backpropagate leaves it.
C18_LayersUpdatedOnceDescending ==
    (lastOp = "backpropagate" /\ pc \in {"output", "hidden", "returned"})
        => LET n == Len(layers)
               log == tr.log
           IN  /\ \A k \in 1..Len(log) :
                     /\ log[k].layer = n - k + 1
                     /\ log[k].method = IF k = 1 THEN "backwardOutput"
                                        ELSE "backwardHidden"
                     /\ k > 1 => log[k].passed = log[k - 1].returned
               /\ Len(log) <= n
               /\ \A i \in 1..n :
                     /\ i > n - Len(log)
                           => LayerParameters(layers[i]) = log[n - i + 1].after
                     /\ (i < n - Len(log) \/ (i = n - Len(log) /\ lastErr = "none"))
                           => LayerParameters(layers[i])
                                 = LayerParameters(pre.layers[i])
               /\ (pc = "returned" /\ lastErr = "none")
                     => /\ Len(log) = n
                        /\ layers = NetworkBackpropagate(pre.layers, tr.targets,
                                                         learningRate).layers

\* backpropagate has returned on a network of three layers, each of them
\* changed.
C18_Witness ==
    /\ Returned("backpropagate") /\ lastErr = "none"
    /\ Len(layers) = 3
    /\ \A i \in 1..3 : LayerParameters(layers[i]) # LayerParameters(pre.layers[i])

\* --------------------------------------------------------------------- C21
\* The training data of the last train call do not fit the network it was
\* called on: the inputSize of the first layer is not the length of the
\* first example's input, or the size of the last layer is not the length of
\* its target.
ArchitectureMismatch ==
    /\ Len(pre.layers) > 0
    /\ validateTrainingData(tr.trainingData) = "none"
    /\ \/ pre.layers[1].inputSize # Len(tr.trainingData.v[1].input[1])
       \/ pre.layers[Len(pre.layers)].size # Len(tr.trainingData.v[1].target[1])

\* C21: a train call whose (well-formed) data do not fit the first layer's
\* inputSize or the last layer's size fails with a validation error without
\* an epoch: no forward pass (the layers and their caches are as they were),
\* no weight update, no entry appended to trainingHistory.
C21_MismatchFailsBeforeAnyEpoch ==
    (Returned("train") /\ ArchitectureMismatch)
        => /\ lastErr = "ValidationError"
           /\ tr.completed = 0
           /\ layers = pre.layers
           /\ (History = <<>> \/ History = pre.history)

\* train was called with data whose input fits and whose target does not.
C21_Witness ==
    /\ Returned("train") /\ ArchitectureMismatch
    /\ pre.layers[1].inputSize = Len(tr.trainingData.v[1].input[1])
    /\ Len(tr.trainingData.v) = 2

\* --------------------------------------------------------------------- C22
\* C22: the deltas a successful backwardOutput or backwardHidden returns are,
\* for every neuron i, the error times derivative(outputs[i]), outputs being
\* the layer's cache as the call found it: the error is targets[i] -
\* outputs[i] for backwardOutput and the sum over j of nextLayerDeltas[j] *
\* nextLayerWeights[j][i] for backwardHidden.
C22_DerivativeOfCachedOutput ==
    /\ (Returned("layer.backwardOutput") /\ lastErr = "none")
          => \A i \in 1..Len(pre.layers[1].neurons) :
                lastRet[i] = RMul(RSub(lastArgs.targets.v[i],
                                       OutputAt(pre.layers[1], i)),
                                  ActDerivative(pre.layers[1].activationFunction,
                                                OutputAt(pre.layers[1], i)))
    /\ (Returned("layer.backwardHidden") /\ lastErr = "none")
          => \A i \in 1..Len(pre.layers[1].neurons) :
                lastRet[i] = RMul(calculateNeuronError(i, lastArgs.nextDeltas.v,
                                                       lastArgs.nextWeights.v),
                                  ActDerivative(pre.layers[1].activationFunction,
                                                OutputAt(pre.layers[1], i)))

\* backwardOutput has returned a delta that is not zero on a layer whose
\* derivative of the weighted sum is another number than its derivative of
\* the output.
C22_Witness ==
    /\ Returned("layer.backwardOutput") /\ lastErr = "none"
    /\ pre.layers[1].outputs # <<>>
    /\ lastRet[1] # Zero
    /\ LET n == pre.layers[1].neurons[1]
           act == pre.layers[1].activationFunction
       IN  /\ pre.layers[1].outputs[1]
                 = ActFunc(act, calculateWeightedSum(n, n.lastInputs[1]))
           /\ ActDerivative(act, calculateWeightedSum(n, n.lastInputs[1]))
                 # ActDerivative(act, pre.layers[1].outputs[1])

\* --------------------------------------------------------------------- C23
\* The deltas the k-th call of the pass returned, were the next layer's
\* weights those of the layer list ls.
DeltasWithWeightsOf(ls, k) ==
    LET i == tr.log[k].layer
        w == [j \in 1..Len(ls[i + 1].neurons) |-> ls[i + 1].neurons[j].weights]
    IN  [m \in 1..Len(pre.layers[i].neurons) |->
            RMul(calculateNeuronError(m, tr.log[k].passed, w),
                 ActDerivative(pre.layers[i].activationFunction,
                               OutputAt(pre.layers[i], m)))]

\* C23: in a pass of backpropagate, the deltas of every hidden layer i are
\* computed with the weights layer i + 1 has after its own update of this
\* pass, which are the weights layer i + 1 still has.
C23_HiddenErrorUsesUpdatedWeights ==
    (lastOp = "backpropagate" /\ pc \in {"hidden", "returned"})
        => \A k \in 2..Len(tr.log) :
              /\ LayerParameters(layers[tr.log[k].layer + 1]) = tr.log[k - 1].after
              /\ tr.log[k].returned = DeltasWithWeightsOf(layers, k)

\* A pass over three layers has returned, and the deltas of both hidden
\* layers are not those the weights of the forward pass would have given.
C23_Witness ==
    /\ Returned("backpropagate") /\ lastErr = "none"
    /\ Len(tr.log) = 3
    /\ \A k \in 2..3 : tr.log[k].returned # DeltasWithWeightsOf(pre.layers, k)

\* --------------------------------------------------------------------- C25
\* C25: Neuron.forward throws the validation error exactly when inputs is not
\* an array, or is not as long as the weights, or holds an element that is
\* not a finite number, and then leaves lastInputs and lastOutput as they
\* were; otherwise lastInputs holds the elements of inputs in an array that
\* is not the caller's, and lastOutput is the value returned.
C25_NeuronForwardValidatesThenCaches ==
    Returned("neuron.forward")
        => LET j == lastArgs.j
               inputs == lastArgs.inputs
               old == pre.layers[1].neurons[j]
               new == layers[1].neurons[j]
               rejected == \/ ~inputs.arr
                           \/ Len(inputs.v) # Len(old.weights)
                           \/ \E i \in 1..Len(inputs.v) : ~IsFinite(inputs.v[i])
           IN  IF rejected
               THEN /\ lastErr = "ValidationError"
                    /\ new = old
               ELSE /\ lastErr = "none"
                    /\ new.lastInputs = Some(inputs.v)
                    /\ new.lastOutput = Some(lastRet[1])
                    /\ new.weights = old.weights /\ new.bias = old.bias
                    /\ (caller.ref # NoCaller /\ caller.ref[1].kind = "inputs")
                          => j \notin caller.ref[1].live

\* forward has rejected an element that is not a finite number, on a neuron
\* that holds the inputs and the output of an earlier forward.
C25_Witness ==
    /\ Returned("neuron.forward") /\ lastErr = "ValidationError"
    /\ lastArgs.inputs = Arr(<<NaN>>)
    /\ Len(layers[1].neurons[lastArgs.j].weights) = 1
    /\ layers[1].neurons[lastArgs.j].lastInputs = Some(<<One>>)
    /\ ~IsNull(layers[1].neurons[lastArgs.j].lastOutput)

\* --------------------------------------------------------------------- C26
\* The layer b stands where the layer a stood and is a layer of the same
\* construction.
SameLayer(a, b) ==
    /\ b.size = a.size
    /\ b.inputSize = a.inputSize
    /\ b.activationFunction = a.activationFunction
    /\ Len(b.neurons) = Len(a.neurons)
    /\ \A j \in 1..Len(a.neurons) :
          Len(b.neurons[j].weights) = Len(a.neurons[j].weights)

\* A step keeps every layer in its place; the list grows by one layer at
\* most, at its end, and only in addLayer.
LayersOnlyGrow ==
    /\ Len(layers') >= Len(layers)
    /\ \A i \in 1..Len(layers) : SameLayer(layers[i], layers'[i])
    /\ Len(layers') > Len(layers)
          => /\ Len(layers') = Len(layers) + 1
             /\ SubSeq(layers', 1, Len(layers)) = layers
             /\ lastOp' = "addLayer"

\* C26: in every state the Network methods reach, a compiled network has at
\* least one layer, and no step removes or replaces a layer.
C26_CompiledHasLayersThatStay ==
    /\ [](isCompiled => Len(layers) > 0)
    /\ [][LayersOnlyGrow]_vars

\* reset has returned on a compiled network of two layers whose caches it
\* cleared.
C26_Witness ==
    /\ Returned("reset")
    /\ isCompiled
    /\ Len(layers) = 2
    /\ layers # pre.layers

\* --------------------------------------------------------------------- C27
\* The train call that has returned got past validateTrainingData and
\* prepareForTraining, and was given no validationData.
PassedTrainChecks ==
    /\ Returned("train")
    /\ validateTrainingData(tr.trainingData) = "none"
    /\ prepareForTraining(pre.layers, pre.isCompiled, tr.trainingData).err = "none"
    /\ ~ValidationDataGiven(tr.validationData)

\* C27: a train call without validationData that has passed its data
\* validation and its architecture checks throws nothing in its epoch loop.
C27_NoErrorInsideEpochLoop ==
    PassedTrainChecks => lastErr = "none"

\* The errors of the epoch loop never come from updateWeights without
\* lastInputs or from vectors of unequal length, whatever the contents of the
\* training data: the call ends without an error or with the validation
\* error of a forward pass, and then every example has the sizes of the
\* network.
EpochLoopErrorsAreForwardErrors ==
    PassedTrainChecks
        => /\ lastErr \in {"none", "ValidationError"}
           /\ \A k \in 1..Len(tr.trainingData.v) :
                 /\ Len(tr.trainingData.v[k].input[1]) = layers[1].inputSize
                 /\ Len(tr.trainingData.v[k].target[1]) = layers[Len(layers)].size

\* --------------------------------------------------------------------- C28
\* The train call that has returned without an error was given no
\* validationData, or no earlyStoppingPatience, or a patience of 0.
ReturnedWithoutEarlyStopping ==
    /\ Returned("train") /\ lastErr = "none"
    /\ \/ IsNull(tr.validationData)
       \/ IsNull(tr.earlyStoppingPatience)
       \/ tr.earlyStoppingPatience = Some(0)

\* C28: a train call that lacks validationData or earlyStoppingPatience, or
\* has a patience of 0, evaluates no validation error, is not stopped early
\* and returns after exactly epochs epochs with trainingHistory of that
\* length.
C28_NoEarlyStoppingWithoutBothOptions ==
    ReturnedWithoutEarlyStopping
        => /\ tr.validationErrors = <<>>
           /\ ~tr.stopped
           /\ tr.patienceCounter = 0
           /\ tr.bestValidationError = Infinity
           /\ tr.completed = tr.epochs
           /\ Len(History) = tr.epochs

\* train has returned after two epochs, given validationData and a patience
\* of 0.
C28_Witness ==
    /\ ReturnedWithoutEarlyStopping
    /\ ValidationDataGiven(tr.validationData)
    /\ tr.earlyStoppingPatience = Some(0)
    /\ tr.epochs = 2
    /\ layers # pre.layers

\* --------------------------------------------------------------------- C29
\* One step of a train call, as C29 has it.
TrainingDataStays ==
    pc \in {"loop", "epoch"}
        => /\ tr'.trainingData = tr.trainingData
           /\ pc' = "epoch"
                 => /\ IsPermutation(tr'.shuffledData, tr.trainingData.v)
                    /\ pc = "epoch" => tr'.shuffledData = tr.shuffledData

\* C29: from its first epoch to its return, no step of train changes the
\* order or the contents of the caller's training data; every epoch visits a
\* permutation of them, fixed when the epoch starts.
C29_TrainingDataNotMutated == [][TrainingDataStays]_vars

\* train has returned after two epochs, the last of which visited the
\* examples in another order than the caller's.
C29_Witness ==
    /\ Returned("train") /\ lastErr = "none"
    /\ tr.completed = 2
    /\ tr.shuffledData # tr.trainingData.v
    /\ tr.trainingData.v[1] # tr.trainingData.v[2]

\* --------------------------------------------------------------------- C30
\* The least of the first n validation errors that are below Infinity,
\* Infinity if there is none.
BestOfFirst(errors, n) ==
    LET below == {errors[m] : m \in {k \in 1..n : RLt(errors[k], Infinity)}}
    IN  IF below = {} THEN Infinity
        ELSE CHOOSE x \in below : \A y \in below : ~RLt(y, x)

\* The number of most recent epochs in a row whose validation error was not
\* strictly below the best one seen before them.
TrailingWithoutImprovement(errors) ==
    LET better == {k \in 1..Len(errors) :
                      RLt(errors[k], BestOfFirst(errors, k - 1))}
    IN  IF better = {} THEN Len(errors)
        ELSE Len(errors) - (CHOOSE k \in better : \A m \in better : m <= k)

\* At the head of the epoch loop and inside an epoch of a train call with
\* early stopping.
PatienceCounterIsTrailingCount ==
    (lastOp = "train" /\ pc \in {"loop", "epoch"} /\ EarlyStopping)
        => /\ 0 <= tr.patienceCounter
           /\ tr.patienceCounter < tr.earlyStoppingPatience[1]
           /\ Len(tr.validationErrors) = tr.completed
           /\ tr.patienceCounter = TrailingWithoutImprovement(tr.validationErrors)
           /\ tr.bestValidationError
                 = BestOfFirst(tr.validationErrors, Len(tr.validationErrors))

\* A step inside a train call does not raise the best validation error.
BestNeverIncreases ==
    (lastOp = "train" /\ pc \in {"loop", "epoch"})
        => ~RLt(tr.bestValidationError, tr'.bestValidationError)

\* C30: under early stopping with patience p, at the start of every epoch
\* the patience counter c has 0 <= c < p and is the number of most recent
\* completed epochs in a row whose validation error was not strictly below
\* the best one before them; the best validation error never increases and
\* is the least validation error of the completed epochs, Infinity if none
\* of them was below Infinity.
C30_PatienceCounterAndBestError ==
    /\ []PatienceCounterIsTrailingCount
    /\ [][BestNeverIncreases]_vars

\* The loop head after two epochs with a patience of 2: the first epoch
\* improved, the second did not.
C30_Witness ==
    /\ lastOp = "train" /\ pc = "loop" /\ EarlyStopping
    /\ tr.completed = 2
    /\ tr.earlyStoppingPatience = Some(2)
    /\ tr.patienceCounter = 1
    /\ RLt(tr.bestValidationError, Infinity)
    /\ tr.bestValidationError = tr.validationErrors[1]

\* --------------------------------------------------------------------- C24
\* A train call that entered its epoch loop has returned without an error.
LeftEpochLoop ==
    /\ Returned("train") /\ lastErr = "none"
    /\ validateTrainingData(tr.trainingData) = "none"

\* Such a call returns the network, after epochs epochs at the epoch limit
\* or after fewer at the early stop, where the counter has reached the
\* patience.
ExitsOfEpochLoop ==
    LeftEpochLoop
        => /\ lastRet = <<"this">>
           /\ tr.completed <= tr.epochs
           /\ \/ ~tr.stopped /\ tr.epoch = tr.epochs /\ tr.completed = tr.epochs
              \/ /\ tr.stopped /\ EarlyStopping
                 /\ tr.patienceCounter >= tr.earlyStoppingPatience[1]

\* During a train call no more epochs are begun than were asked for.
AtMostEpochs ==
    (lastOp = "train" /\ pc \in {"loop", "epoch"})
        => /\ tr.epoch <= tr.epochs
           /\ EpochsBegun <= tr.epochs

\* C24: every train call that has entered its epoch loop comes to its end;
\* it never begins more than epochs epochs, and when it ends without an
\* error it returns the network, either at the epoch limit or at the early
\* stop.
C24_TrainTerminates ==
    /\ []ExitsOfEpochLoop
    /\ []AtMostEpochs
    /\ (lastOp = "train" /\ pc \in {"loop", "epoch"}) ~> (pc = "returned")

\* train has returned the network at the epoch limit after two epochs under
\* early stopping that did not fire.
C24_Witness ==
    /\ LeftEpochLoop
    /\ EarlyStopping
    /\ ~tr.stopped
    /\ tr.completed = 2
====
